---- MODULE Spec2Model ----
(***************************************************************************)
(* Verification model of the Cosmos DB <-> ADLS streaming ETL engine       *)
(* (dcs-for-azure-templates):                                              *)
(*   export: Cosmos_to_ADLS/function_app.py                                *)
(*   import: ADLS_to_Cosmos/function_app.py                                *)
(*                                                                         *)
(* Strings that the code inspects (column names, table names, paths) are   *)
(* sequences of tokens: one token per character of a user key, "." for the *)
(* separator and one token for each synthetic name ("_rid", "_parent_rid", *)
(* "_has_array_", "_ts").  Python dictionaries are functions; where the    *)
(* code iterates a dictionary the model iterates its keys in sorted order  *)
(* (one admissible insertion order).  uuid4() is a fresh counter value.    *)
(***************************************************************************)
EXTENDS Integers, Sequences, FiniteSets, TLC

VARIABLES
    \* ---- shredder / stitcher round trip (Spec) ----
    pc,                     \* position of the export+import run
    doc,                    \* the document handed to the shredder
    arrayBatch,             \* flush threshold ARRAY_PROCESSING_BATCH_SIZE
    parent_fields,          \* extract_arrays_iterative_optimized: parent_fields
    queue,                  \* ... its deque of (item, table_name, parent_rid)
    current_batch,          \* ... its per-table row buffers
    child_tables,           \* ... its per-table lists of materialised frames
    nextRid,                \* next uuid4() value
    behind,                 \* history: rid -> the source object the row was made from
    files,                  \* ObjectStore: table name -> CSV file
    imp,                    \* import state of process_batch (a record)
    result,                 \* the documents handed to batch_upsert_documents
    \* ---- one table file under a sequence of writes (SpecWriter) ----
    csvFile,                \* the file in ObjectStore
    table_schema,           \* the column set returned by the previous call
    written,                \* history: the rows handed to the calls so far
    calls,                  \* number of upload_csv_to_adls calls made
    \* ---- one export run, process_cosmos_to_adls_activity (SpecExport) ----
    params,                 \* the validated parameters of the run
    cosmos,                 \* DocStore: the documents of the container
    store,                  \* ObjectStore: file -> CSV file
    earlier,                \* an earlier run left files in the export directory
    xpc,                    \* position of the run: "setup", "stream", "done"
    status,                 \* "running", or the status returned: "success", "error"
    run,                    \* locals of the run: pk_values, the reader's batches, schemas, counters
    writeLog,               \* history: the upload_csv_to_adls calls of the run
    shredded,               \* history: the _rid of each document handed to the shredder
    \* ---- one query of the reader, _process_query_results (SpecReader) ----
    pages,                  \* the pages the server has still to return
    batch_size,             \* self.batch_size
    batch,                  \* the batch being filled
    yielded,                \* the batches yielded so far
    consumed,               \* history: the documents of the pages read so far
    rpc,                    \* position of the generator: "pages", "done"
    \* ---- rate limiting, retry and throttle control (SpecBucket, SpecRetry,
    \*      SpecUpsert, SpecThrottle): one object or call under study ----
    self,                   \* the fields of the object / the locals of the call
    clock,                  \* time.time(), a discrete clock
    sleeps,                 \* history: the time.sleep / asyncio.sleep calls made
    world,                  \* what the caller and the server do, and history of the calls
    cpc                     \* position of the call under study

shredVars == <<pc, doc, arrayBatch, parent_fields, queue, current_batch,
               child_tables, nextRid, behind, files, imp, result>>

writerVars == <<csvFile, table_schema, written, calls>>

exportVars == <<params, cosmos, store, earlier, xpc, status, run, writeLog, shredded>>

readerVars == <<pages, batch_size, batch, yielded, consumed, rpc>>

controlVars == <<self, clock, sleeps, world, cpc>>

vars == <<shredVars, writerVars, exportVars, readerVars, controlVars>>

\* The variables of the other specifications, left alone by the round trip,
\* by the writer, by the export run and by the reader.
nonShredVars == <<writerVars, exportVars, readerVars, controlVars>>
nonWriterVars == <<shredVars, exportVars, readerVars, controlVars>>
nonExportVars == <<shredVars, writerVars, readerVars, controlVars>>
nonReaderVars == <<shredVars, writerVars, exportVars, controlVars>>
nonControlVars == <<shredVars, writerVars, exportVars, readerVars>>

-----------------------------------------------------------------------------
(* Bounds of the model *)

MaxArr == 2         \* longest array in a generated document
MaxFlush == 2       \* largest flush threshold tried for the child-row buffers

-----------------------------------------------------------------------------
(* Strings *)

DOT == "."
HAS_ARRAY == "_has_array_"
RID == <<"_rid">>
PARENT_RID == <<"_parent_rid">>
TS == <<"_ts">>

\* Code-point order of the tokens ("." < "_" < lower-case letters).
Alphabet == <<".", "_has_array_", "_parent_rid", "_rid", "_ts", "a", "b", "c", "d">>

Rank(c) == CHOOSE i \in 1..Len(Alphabet) : Alphabet[i] = c

\* Python's str "<".
RECURSIVE StrLt(_, _)
StrLt(s, t) ==
    IF s = <<>> THEN t # <<>>
    ELSE IF t = <<>> THEN FALSE
    ELSE IF Head(s) = Head(t) THEN StrLt(Tail(s), Tail(t))
    ELSE Rank(Head(s)) < Rank(Head(t))

\* sorted(S) for a set of strings.
RECURSIVE Sorted(_)
Sorted(S) ==
    IF S = {} THEN <<>>
    ELSE LET m == CHOOSE x \in S : \A y \in S : x = y \/ StrLt(x, y)
         IN <<m>> \o Sorted(S \ {m})

\* f"{parent}.{k}" if parent else k
JoinKey(parent, k) == IF parent = <<>> THEN k ELSE parent \o <<DOT>> \o k

\* f"_has_array_{key}"
Marker(key) == <<HAS_ARRAY>> \o key

\* k.startswith("_has_array_")
IsMarker(k) == k # <<>> /\ Head(k) = HAS_ARRAY

\* marker.replace("_has_array_", "")
MarkerName(k) == SelectSeq(k, LAMBDA c : c # HAS_ARRAY)

\* s.split(".")
RECURSIVE Split(_)
Split(s) ==
    IF \A i \in 1..Len(s) : s[i] # DOT THEN <<s>>
    ELSE LET i == CHOOSE j \in 1..Len(s) : s[j] = DOT /\ \A k \in 1..(j-1) : s[k] # DOT
         IN <<SubSeq(s, 1, i - 1)>> \o Split(SubSeq(s, i + 1, Len(s)))

\* s.count(".")
DotCount(s) == Len(SelectSeq(s, LAMBDA c : c = DOT))

\* s.endswith(t)
EndsWith(s, t) == Len(t) <= Len(s) /\ SubSeq(s, Len(s) - Len(t) + 1, Len(s)) = t

-----------------------------------------------------------------------------
(* JSON values: Null | scalar | mapping | array *)

NULL == [t |-> "null"]
S(v) == [t |-> "s", v |-> v]
M(f) == [t |-> "m", f |-> f]
A(e) == [t |-> "a", e |-> e]
EmptyMap == <<>>

IsDict(v) == v.t = "m"
IsList(v) == v.t = "a"

\* F applied to the value of x (x is evaluated once, before F is entered).
Strict(F(_), x) == CHOOSE r \in {F(v) : v \in {x}} : TRUE

Put(f, k, v) == [x \in DOMAIN f \cup {k} |-> IF x = k THEN v ELSE f[x]]
Drop(f, K) == [x \in DOMAIN f \ K |-> f[x]]
Update(f, g) == [x \in DOMAIN f \cup DOMAIN g |-> IF x \in DOMAIN g THEN g[x] ELSE f[x]]

\* str(uuid.uuid4())
Uuid(n) == "r" \o ToString(n)

TRUE_CELL == S("True")

-----------------------------------------------------------------------------
(* Shredder: extract_arrays_iterative_optimized (export) *)

\* flatten_no_arrays: flatten nested mappings into dotted paths, arrays kept.
\* (An empty mapping contributes no path.)
RECURSIVE flatten_no_arrays(_, _)
flatten_no_arrays(d, parent) ==
    LET sub(k) == IF IsDict(d[k]) THEN flatten_no_arrays(d[k].f, JoinKey(parent, k))
                  ELSE (JoinKey(parent, k) :> d[k])
        paths == UNION {DOMAIN sub(k) : k \in DOMAIN d}
    IN [p \in paths |-> LET k == CHOOSE kk \in DOMAIN d : p \in DOMAIN sub(kk)
                        IN sub(k)[p]]

primitive_items(value) == SelectSeq(value.e, LAMBDA v : ~IsDict(v))
dict_items(value) == SelectSeq(value.e, LAMBDA v : IsDict(v))

\* "if primitive_items and not dict_items": the array stays a value of the row.
KeepsArrayInRow(value) == primitive_items(value) # <<>> /\ dict_items(value) = <<>>

\* A shredder that hands the elements the rid its own row was queued with.
ItemParentRidOfQueue(ownRid, queueParentRid) == queueParentRid

\* The rid written into item["_parent_rid"] and into the queue entry for the
\* elements of an array found in the object whose row has rid ownRid.
ItemParentRid(ownRid, queueParentRid) == ownRid

\* A shredder that names a table by the key of its array alone.
TableNameOfKey(table_name, key) == key

\* table_name = key for the root, f"{table_name}.{key}" for a queued item.
nested_table_name(table_name, key) == JoinKey(table_name, key)

\* One iteration of "for key, value in flat.items()" (root loop and queue loop).
\* acc = [row, queue, next, behind]; prefix is "" for the root, else table_name.
ProcessField(acc, key, value, prefix, ownRid, queueParentRid) ==
    IF ~IsList(value) THEN [acc EXCEPT !.row = Put(@, key, value)]
    ELSE IF KeepsArrayInRow(value) THEN [acc EXCEPT !.row = Put(@, key, value)]
    ELSE LET items == dict_items(value)
             prid == ItemParentRid(ownRid, queueParentRid)
             entry(i) == [item |-> Put(Put(items[i].f, RID, S(Uuid(acc.next + i - 1))),
                                       PARENT_RID, S(prid)),
                          table_name |-> nested_table_name(prefix, key),
                          parent_rid |-> prid]
         IN [row |-> Put(acc.row, Marker(key), TRUE_CELL),
             queue |-> acc.queue \o [i \in 1..Len(items) |-> entry(i)],
             next |-> acc.next + Len(items),
             behind |-> [r \in DOMAIN acc.behind \cup {Uuid(acc.next + i - 1) : i \in 1..Len(items)} |->
                            IF r \in DOMAIN acc.behind THEN acc.behind[r]
                            ELSE items[CHOOSE i \in 1..Len(items) : Uuid(acc.next + i - 1) = r].f]]

RECURSIVE ProcessKeys(_, _, _, _, _, _)
ProcessKeys(keys, flat, acc, prefix, ownRid, queueParentRid) ==
    IF keys = <<>> THEN acc
    ELSE LET rest(a) == ProcessKeys(Tail(keys), flat, a, prefix, ownRid, queueParentRid)
         IN Strict(rest, ProcessField(acc, Head(keys), flat[Head(keys)], prefix, ownRid,
                                      queueParentRid))

\* Lines 711-763: root rid, flat_root, the root loop.  The shredder's locals
\* are a record [parent_fields, queue, current_batch, child_tables, next, behind].
ShredRootOf(d, next, bh) ==
    LET hasRid == RID \in DOMAIN d /\ d[RID] # NULL
        root_rid == IF hasRid THEN d[RID].v ELSE Uuid(next)
        n0 == IF hasRid THEN next ELSE next + 1
        flat_root == flatten_no_arrays(Put(d, RID, S(root_rid)), <<>>)
        acc == ProcessKeys(Sorted(DOMAIN flat_root), flat_root,
                           [row |-> <<>>, queue |-> <<>>, next |-> n0,
                            behind |-> Put(bh, root_rid, d)],
                           <<>>, root_rid, root_rid)
    IN [parent_fields |-> acc.row, queue |-> acc.queue, current_batch |-> <<>>,
        child_tables |-> <<>>, next |-> acc.next, behind |-> acc.behind]

\* Lines 768-803: one iteration of "while queue", flushing at the threshold.
ShredStepOf(st, threshold) ==
    LET current == Head(st.queue).item
        table_name == Head(st.queue).table_name
        parent_rid == Head(st.queue).parent_rid
        flat == flatten_no_arrays(current, <<>>)
        row0 == (RID :> current[RID]) @@ (PARENT_RID :> S(parent_rid))
        acc == ProcessKeys(Sorted(DOMAIN flat), flat,
                           [row |-> row0, queue |-> Tail(st.queue), next |-> st.next,
                            behind |-> st.behind],
                           table_name, current[RID].v, parent_rid)
        buf == (IF table_name \in DOMAIN st.current_batch
                THEN st.current_batch[table_name] ELSE <<>>) \o <<acc.row>>
        frames == IF table_name \in DOMAIN st.child_tables
                  THEN st.child_tables[table_name] ELSE <<>>
        flush == Len(buf) >= threshold
    IN [st EXCEPT !.queue = acc.queue,
                  !.next = acc.next,
                  !.behind = acc.behind,
                  !.child_tables = IF flush THEN Put(@, table_name, frames \o <<buf>>) ELSE @,
                  !.current_batch = Put(@, table_name, IF flush THEN <<>> ELSE buf)]

\* pd.concat(frames, ignore_index=True): the rows of the frames, in order.
RECURSIVE Concat(_)
Concat(frames) == IF frames = <<>> THEN <<>> ELSE Head(frames) \o Concat(Tail(frames))

\* A shredder that returns the frames flushed at the threshold alone.
RemainingDropped(ct, cb) == ct

\* Lines 805-820: flush what is left in the buffers; final_children.
RemainingFlushed(ct, cb) ==
    [t \in DOMAIN ct \cup {u \in DOMAIN cb : cb[u] # <<>>} |->
        (IF t \in DOMAIN ct THEN ct[t] ELSE <<>>)
        \o (IF t \in DOMAIN cb /\ cb[t] # <<>> THEN <<cb[t]>> ELSE <<>>)]

FinalChildrenOf(ct, cb) ==
    [t \in DOMAIN RemainingFlushed(ct, cb) |-> Concat(RemainingFlushed(ct, cb)[t])]

ARRAY_PROCESSING_BATCH_SIZE == 2000

\* extract_arrays_iterative_optimized(doc) as a whole: the parent row, the child
\* tables and the next unused uuid.
RECURSIVE ShredDrain(_)
ShredDrain(st) ==
    IF st.queue = <<>> THEN st
    ELSE Strict(ShredDrain, ShredStepOf(st, ARRAY_PROCESSING_BATCH_SIZE))

extract_arrays_iterative_optimized(d, next) ==
    LET st == ShredDrain(ShredRootOf(d, next, <<>>))
    IN [parent |-> st.parent_fields,
        children |-> FinalChildrenOf(st.child_tables, st.current_batch),
        next |-> st.next]

\* The root step and the drain steps of the shredder on the variables.
ShredRoot ==
    /\ pc = "start"
    /\ LET st == ShredRootOf(doc, nextRid, <<>>)
       IN /\ parent_fields' = st.parent_fields
          /\ queue' = st.queue
          /\ nextRid' = st.next
          /\ behind' = st.behind
    /\ pc' = "drain"
    /\ UNCHANGED <<doc, arrayBatch, current_batch, child_tables, files, imp, result>>
    /\ UNCHANGED nonShredVars

ShredStep ==
    /\ pc = "drain"
    /\ queue # <<>>
    /\ LET st == ShredStepOf([parent_fields |-> parent_fields, queue |-> queue,
                              current_batch |-> current_batch, child_tables |-> child_tables,
                              next |-> nextRid, behind |-> behind], arrayBatch)
       IN /\ queue' = st.queue
          /\ nextRid' = st.next
          /\ behind' = st.behind
          /\ child_tables' = st.child_tables
          /\ current_batch' = st.current_batch
    /\ UNCHANGED <<pc, doc, arrayBatch, parent_fields, files, imp, result>>
    /\ UNCHANGED nonShredVars

\* The child tables the shredder returns from the state it is in.
final_children == FinalChildrenOf(child_tables, current_batch)

-----------------------------------------------------------------------------
(* CsvTableWriter: clean_dataframe and upload_csv_to_adls (export) *)

\* A DataFrame is the sequence of its rows (functions column -> value); a column a
\* row lacks is NaN.  A CSV file is a header and positional rows of cell texts.
EMPTY == S("")
NoFile == [exists |-> FALSE, header |-> <<>>, rows |-> <<>>]
NoneCols == [some |-> FALSE, cols |-> {}]
SomeCols(c) == [some |-> TRUE, cols |-> c]

Range(s) == {s[i] : i \in DOMAIN s}
Columns(df) == UNION {DOMAIN df[i] : i \in DOMAIN df}

\* clean_dataframe.fix_value: mappings and arrays holding a mapping become None.
fix_value(val) ==
    IF val = NULL THEN NULL
    ELSE IF val.t = "s" THEN val
    ELSE IF IsList(val) /\ dict_items(val) = <<>> THEN val
    ELSE NULL

\* serialize_cell + DataFrame.to_csv: None/NaN is the empty cell, a list is
\* written as its str() text, a scalar as its text.
CellText(val) ==
    IF val = NULL THEN EMPTY
    ELSE IF IsList(val) THEN [t |-> "txt", of |-> val]
    ELSE val

\* One CSV line for a row, under the column order given.
CsvLine(r, order) ==
    [i \in 1..Len(order) |->
        IF order[i] \in DOMAIN r THEN CellText(fix_value(r[order[i]])) ELSE EMPTY]

CsvLines(df, order) == [i \in 1..Len(df) |-> CsvLine(df[i], order)]

\* pd.read_csv(..., keep_default_na=False) of a well-formed file: one dict per
\* line, every header column present, an empty cell read as the string "".
ReadCsv(file) ==
    [i \in 1..Len(file.rows) |->
        [c \in Range(file.header) |->
            file.rows[i][CHOOSE j \in 1..Len(file.header) : file.header[j] = c]]]

\* A writer that appends the new rows without rewriting the file.
RewriteSkipped(file, df, known1, new) ==
    [file EXCEPT !.rows = @ \o CsvLines(df, Sorted(known1))]

\* Lines 932-986: read-merge-rewrite, entered in append mode when new columns
\* appeared and the file exists (a file written by this code is never empty).
\* existing_df[column_order] raises KeyError, swallowed by "except Exception: pass",
\* when the file lacks a known column.
RewriteMerged(file, df, known1, new) ==
    [exists |-> TRUE,
     header |-> Sorted(known1),
     rows |-> [i \in 1..Len(file.rows) |->
                  [j \in 1..Len(Sorted(known1)) |->
                      LET c == Sorted(known1)[j]
                      IN IF c \in new THEN EMPTY
                         ELSE file.rows[i][CHOOSE k \in 1..Len(file.header) : file.header[k] = c]]]
              \o CsvLines(df, Sorted(known1))]

\* DataFrame(records).columns: the keys in order of first appearance, each
\* record giving its keys in sorted order.
RECURSIVE FrameColumns(_, _)
FrameColumns(df, acc) ==
    IF df = <<>> THEN acc
    ELSE FrameColumns(Tail(df),
                      acc \o SelectSeq(Sorted(DOMAIN Head(df)), LAMBDA c : c \notin Range(acc)))

\* Lines 988-1054: the standard write / append.
StandardWrite(file, df, mode, knownStd) ==
    LET order == IF knownStd # {} THEN Sorted(knownStd) ELSE FrameColumns(df, <<>>)
    IN IF mode = "write" \/ ~file.exists
       THEN [exists |-> TRUE, header |-> order, rows |-> CsvLines(df, order)]
       ELSE [file EXCEPT !.rows = @ \o CsvLines(df, order)]

\* upload_csv_to_adls(df, mode, known_columns) on one file: the file afterwards
\* and the returned column set.
upload_csv_to_adls(file, df, mode, known_columns) ==
    IF df = <<>>
    THEN [file |-> file, known |-> IF known_columns.some THEN known_columns.cols ELSE {}]
    ELSE LET current_columns == Columns(df)
             known0 == IF known_columns.some THEN known_columns.cols ELSE current_columns
             new_columns == current_columns \ known0
             tryRewrite == mode = "append" /\ new_columns # {} /\ file.exists
             known1 == known0 \cup new_columns
             rewriteOk == tryRewrite /\ known1 \subseteq (Range(file.header) \cup new_columns)
             knownStd == IF tryRewrite THEN known1 ELSE known0
         IN IF rewriteOk
            THEN [file |-> RewriteMerged(file, df, known1, new_columns), known |-> known1]
            ELSE [file |-> StandardWrite(file, df, mode, knownStd),
                  known |-> knownStd \cup current_columns]

-----------------------------------------------------------------------------
(* Stitcher: process_batch and its helpers (import) *)

\* Objects live in a heap (oid -> dict) so that the in-place updates of
\* process_batch and the sharing between all_objects_by_rid and the arrays of
\* the parents are kept.  An array element placed by the stitcher is Ref(oid).
Ref(o) == [t |-> "ref", oid |-> o]

\* parse_json_string: a cell holding the text of a list is parsed back.
parse_json_string(value) == IF value.t = "txt" THEN value.of ELSE value

\* ".".join(parts)
RECURSIVE JoinParts(_)
JoinParts(parts) ==
    IF Len(parts) = 1 THEN parts[1] ELSE parts[1] \o <<DOT>> \o JoinParts(Tail(parts))

\* The inner loop of unflatten_dict for one key.
RECURSIVE SetNested(_, _, _)
SetNested(cur, parts, value) ==
    IF Len(parts) = 1 THEN Put(cur, parts[1], value)
    ELSE LET part == Head(parts)
             sub == IF part \in DOMAIN cur /\ IsDict(cur[part]) THEN cur[part].f ELSE EmptyMap
         IN Put(cur, part, M(SetNested(sub, Tail(parts), value)))

RECURSIVE UnflattenKeys(_, _, _)
UnflattenKeys(keys, flat, acc) ==
    IF keys = <<>> THEN acc
    ELSE UnflattenKeys(Tail(keys), flat,
                       SetNested(acc, Split(Head(keys)), parse_json_string(flat[Head(keys)])))

\* unflatten_dict(flat); the keys come in the column order of the file (sorted).
unflatten_dict(flat) == UnflattenKeys(Sorted(DOMAIN flat), flat, EmptyMap)

\* row.dropna() / pd.notna(v): with keep_default_na=False no cell of a
\* well-formed file is NaN, the empty cell is the string "".
NotNa(v) == TRUE

\* _prepare_batch_parents, for one row of the parent file.
PrepareParent(row) ==
    LET flat == [k \in {c \in DOMAIN row : NotNa(row[c])} |-> row[k]]
        has_array_fields == [k \in {c \in DOMAIN flat : IsMarker(c)} |-> flat[k]]
        regular_fields == [k \in {c \in DOMAIN flat : c # PARENT_RID /\ ~IsMarker(c)} |-> flat[k]]
    IN Update(unflatten_dict(regular_fields), has_array_fields)

\* _build_child_object, for one row of a child file.
BuildChildObject(row) ==
    LET obj == [k \in {c \in DOMAIN row : c \notin {RID, PARENT_RID} /\ NotNa(row[c])} |-> row[k]]
        has_array_fields == [k \in {c \in DOMAIN obj : IsMarker(c)} |-> obj[k]]
        regular_fields == [k \in {c \in DOMAIN obj : ~IsMarker(c)} |-> obj[k]]
        rid == IF RID \in DOMAIN row THEN row[RID] ELSE NULL
        prid == IF PARENT_RID \in DOMAIN row THEN row[PARENT_RID] ELSE NULL
    IN Put(Put(Update(unflatten_dict(regular_fields), has_array_fields), RID, rid),
           PARENT_RID, prid)

\* Python truthiness of a rid read from a file.
Truthy(v) == v # NULL /\ v # EMPTY

\* _organize_csv_paths_by_depth: the child tables by dot count, each depth in
\* path order (the path of table p1.p2 is <dir>/p1/p2/p2.csv).
RECURSIVE SortByDepth(_, _)
SortByDepth(names, d) ==
    IF names = {} THEN <<>>
    ELSE LET here == {n \in names : DotCount(n) = d}
         IN Sorted(here) \o SortByDepth(names \ here, d + 1)

\* _determine_filter_rids
determine_filter_rids(arr_name, current_depth, st) ==
    LET arr_parts == Split(arr_name)
        possible_markers == [i \in 1..Len(arr_parts) |->
                                JoinParts(SubSeq(arr_parts, i, Len(arr_parts)))]
        upto == UNION {st.rids_by_depth[d] : d \in (0..current_depth) \cap DOMAIN st.rids_by_depth}
        valid(i) == LET marker_key == Marker(possible_markers[i])
                        rids_with_marker == {rid \in DOMAIN st.all_objects_by_rid :
                                               marker_key \in DOMAIN st.heap[st.all_objects_by_rid[rid]]}
                    IN IF current_depth = 0 THEN rids_with_marker \cap st.parent_rids
                       ELSE rids_with_marker \cap upto
        hits == {i \in 1..Len(arr_parts) : valid(i) # {}}
        nonEmpty == {d \in (0..current_depth) \cap DOMAIN st.rids_by_depth : st.rids_by_depth[d] # {}}
    IN IF hits # {} THEN valid(CHOOSE i \in hits : \A j \in hits : i <= j)
       ELSE IF current_depth = 0 THEN st.parent_rids
       ELSE IF nonEmpty # {} THEN st.rids_by_depth[CHOOSE d \in nonEmpty : \A e \in nonEmpty : e <= d]
       ELSE {}

\* The loop "for _, r in filtered_chunk.iterrows()" of process_child_csv_streaming.
RECURSIVE LoadRows(_, _, _)
LoadRows(rows, arr_name, st) ==
    IF rows = <<>> THEN st
    ELSE LET obj == BuildChildObject(Head(rows))
             o == st.nextOid
             keep == Truthy(obj[RID])
             rid == obj[RID].v
             st1 == [st EXCEPT
                       !.heap = Put(@, o, obj),
                       !.nextOid = o + 1,
                       !.child_objects_by_table = Put(@, arr_name, @[arr_name] \o <<o>>),
                       !.child_rows = @ + 1]
             st2 == IF keep
                    THEN [st1 EXCEPT
                            !.all_objects_by_rid = Put(@, rid, o),
                            !.ridOrder = IF rid \in DOMAIN st.all_objects_by_rid THEN @ ELSE @ \o <<rid>>,
                            !.loaded_rids = @ \cup {rid}]
                    ELSE st1
         IN LoadRows(Tail(rows), arr_name, st2)

\* process_child_csv_streaming for one file, then the caller's
\* rids_by_depth[current_depth + 1].update(child_rids).
process_child_csv_streaming(file, parent_rids, arr_name, current_depth, st) ==
    LET st0 == [st EXCEPT
                  !.child_objects_by_table =
                      IF arr_name \in DOMAIN @ THEN @ ELSE Put(@, arr_name, <<>>),
                  !.tableOrder = IF arr_name \in DOMAIN st.child_objects_by_table THEN @ ELSE @ \o <<arr_name>>,
                  !.loaded_rids = {}]
        rows == ReadCsv(file)
        filtered == SelectSeq(rows, LAMBDA r : r[PARENT_RID].v \in parent_rids)
        st1 == IF PARENT_RID \notin Range(file.header) THEN st0
               ELSE LoadRows(filtered, arr_name, st0)
    IN [st1 EXCEPT !.rids_by_depth = Put(@, current_depth + 1, @[current_depth + 1] \cup st1.loaded_rids)]

\* _record_array_markers: array name -> rids, with the insertion order of the names.
RECURSIVE RecordMarkers(_, _, _)
RecordMarkers(rids, markers, st) ==
    IF rids = <<>> THEN st
    ELSE IF markers = <<>>
    THEN IF Len(rids) = 1 THEN st
         ELSE RecordMarkers(Tail(rids),
                            Sorted({k \in DOMAIN st.heap[st.all_objects_by_rid[rids[2]]] : IsMarker(k)}),
                            st)
    ELSE LET array_name == MarkerName(Head(markers))
             known == array_name \in DOMAIN st.arrays_with_markers
         IN RecordMarkers(rids, Tail(markers),
                [st EXCEPT
                   !.arrays_with_markers =
                       Put(@, array_name, (IF known THEN @[array_name] ELSE {}) \cup {Head(rids)}),
                   !.markerOrder = IF known THEN @ ELSE @ \o <<array_name>>])

record_array_markers(st) ==
    IF st.ridOrder = <<>> THEN st
    ELSE RecordMarkers(st.ridOrder,
                       Sorted({k \in DOMAIN st.heap[st.all_objects_by_rid[st.ridOrder[1]]] : IsMarker(k)}),
                       st)

\* _initialize_arrays_from_markers, the navigation for one marker.
RECURSIVE InitArrayAt(_, _)
InitArrayAt(target, parts) ==
    IF Len(parts) = 1
    THEN IF parts[1] \in DOMAIN target THEN target ELSE Put(target, parts[1], A(<<>>))
    ELSE LET part == Head(parts)
         IN IF part \notin DOMAIN target
            THEN Put(target, part, M(InitArrayAt(EmptyMap, Tail(parts))))
            ELSE IF ~IsDict(target[part]) THEN target
            ELSE Put(target, part, M(InitArrayAt(target[part].f, Tail(parts))))

RECURSIVE InitMarkers(_, _)
InitMarkers(obj, markers) ==
    IF markers = <<>> THEN obj
    ELSE InitMarkers(Drop(InitArrayAt(obj, Split(MarkerName(Head(markers)))), {Head(markers)}),
                     Tail(markers))

initialize_arrays_from_markers(st) ==
    LET live == {st.all_objects_by_rid[r] : r \in DOMAIN st.all_objects_by_rid}
    IN [st EXCEPT !.heap =
          [o \in DOMAIN st.heap |->
              IF o \in live
              THEN InitMarkers(st.heap[o], Sorted({k \in DOMAIN st.heap[o] : IsMarker(k)}))
              ELSE st.heap[o]]]

\* _clean_child_objects: a cleaned copy of each child; the rid index is moved to it.
RECURSIVE CleanChildren(_, _, _)
CleanChildren(children, st, refs) ==
    IF children = <<>> THEN [st |-> st, refs |-> refs]
    ELSE LET child == st.heap[Head(children)]
             child_rid == IF child[RID] = NULL THEN "None" ELSE child[RID].v
             clean == [k \in {c \in DOMAIN child : c \notin {RID, PARENT_RID} /\ ~IsMarker(c)} |-> child[k]]
             o == st.nextOid
             st1 == [st EXCEPT
                       !.heap = Put(@, o, clean),
                       !.nextOid = o + 1,
                       !.all_objects_by_rid =
                           IF child_rid # "" /\ child_rid \in DOMAIN @ THEN Put(@, child_rid, o) ELSE @]
         IN CleanChildren(Tail(children), st1, refs \o <<Ref(o)>>)

\* The final "extend, or create, or replace" of _add_children_to_array.
RECURSIVE AttachAt(_, _, _)
AttachAt(target, parts, refs) ==
    IF Len(parts) = 1
    THEN IF parts[1] \in DOMAIN target /\ IsList(target[parts[1]])
         THEN Put(target, parts[1], A(target[parts[1]].e \o refs))
         ELSE Put(target, parts[1], A(refs))
    ELSE LET part == Head(parts)
         IN IF part \notin DOMAIN target
            THEN Put(target, part, M(AttachAt(EmptyMap, Tail(parts), refs)))
            ELSE IF ~IsDict(target[part]) THEN target
            ELSE Put(target, part, M(AttachAt(target[part].f, Tail(parts), refs)))

\* The marker _add_children_to_array attaches under: arr_name itself when the
\* parent is recorded for it, else the first of the parent's markers (in the
\* insertion order of arrays_with_markers) that arr_name ends with; <<>> if none.
ActualMarkerName(arr_name, parent_rid, st) ==
    IF arr_name \in DOMAIN st.arrays_with_markers /\ parent_rid \in st.arrays_with_markers[arr_name]
    THEN arr_name
    ELSE LET parent_markers == SelectSeq(st.markerOrder,
                                   LAMBDA m : parent_rid \in st.arrays_with_markers[m])
             match == {i \in 1..Len(parent_markers) : EndsWith(arr_name, parent_markers[i])}
         IN IF match = {} THEN <<>>
            ELSE parent_markers[CHOOSE i \in match : \A j \in match : i <= j]

add_children_to_array(parent_obj, arr_name, refs, parent_rid, st) ==
    LET actual_marker_name == ActualMarkerName(arr_name, parent_rid, st)
    IN IF actual_marker_name # <<>>
       THEN AttachAt(parent_obj, Split(actual_marker_name), refs)
       ELSE LET path_segments == Split(arr_name)
            IN AttachAt(parent_obj, <<path_segments[Len(path_segments)]>>, refs)

\* The grouping of one table's objects by _parent_rid, in order of first appearance.
GroupKey(obj) == IF obj[PARENT_RID] = NULL THEN "None" ELSE obj[PARENT_RID].v

RECURSIVE GroupOrder(_, _, _)
GroupOrder(objects, heap, acc) ==
    IF objects = <<>> THEN acc
    ELSE LET k == GroupKey(heap[Head(objects)])
         IN GroupOrder(Tail(objects), heap,
                       IF k = "" \/ k = "None" \/ k \in Range(acc) THEN acc ELSE acc \o <<k>>)

\* The loop "for parent_rid, children in grouped.items()" of _assign_children_to_parents.
RECURSIVE AssignGroups(_, _, _, _)
AssignGroups(groups, objects, arr_name, st) ==
    IF groups = <<>> THEN st
    ELSE LET parent_rid == Head(groups)
             children == SelectSeq(objects, LAMBDA o : GroupKey(st.heap[o]) = parent_rid)
         IN IF parent_rid \notin DOMAIN st.all_objects_by_rid
            THEN AssignGroups(Tail(groups), objects, arr_name, st)
            ELSE LET parent_oid == st.all_objects_by_rid[parent_rid]
                     c == CleanChildren(children, st, <<>>)
                     st1 == [c.st EXCEPT !.heap =
                                Put(@, parent_oid,
                                    add_children_to_array(@[parent_oid], arr_name, c.refs, parent_rid, c.st))]
                 IN AssignGroups(Tail(groups), objects, arr_name, st1)

assign_table(arr_name, st) ==
    LET objects == st.child_objects_by_table[arr_name]
    IN AssignGroups(GroupOrder(objects, st.heap, <<>>), objects, arr_name, st)

\* sorted(child_objects_by_table.items(), key=dot count): a stable sort.
RECURSIVE StableByDots(_, _)
StableByDots(names, d) ==
    IF names = <<>> THEN <<>>
    ELSE SelectSeq(names, LAMBDA n : DotCount(n) = d)
         \o StableByDots(SelectSeq(names, LAMBDA n : DotCount(n) # d), d + 1)

\* Following the references of the finished object graph.
RECURSIVE Resolve(_, _)
Resolve(heap, v) ==
    IF v.t = "ref" THEN Resolve(heap, M(heap[v.oid]))
    ELSE IF v.t = "m" THEN M([k \in DOMAIN v.f |-> Resolve(heap, v.f[k])])
    ELSE IF v.t = "a" THEN A([i \in DOMAIN v.e |-> Resolve(heap, v.e[i])])
    ELSE v

\* _clean_documents.clean_recursive
RECURSIVE clean_recursive(_)
clean_recursive(v) ==
    IF v.t = "m"
    THEN M([k \in {c \in DOMAIN v.f : c \notin {RID, PARENT_RID} /\ ~IsMarker(c)} |->
               clean_recursive(v.f[k])])
    ELSE IF v.t = "a" THEN A([i \in DOMAIN v.e |-> clean_recursive(v.e[i])])
    ELSE v

\* _clean_documents, for one document: the values are cleaned, then _rid and
\* _parent_rid are popped from the document itself.
clean_document(d) ==
    [k \in DOMAIN d \ {RID, PARENT_RID} |->
        IF IsMarker(k) THEN d[k] ELSE clean_recursive(d[k])]

SYSTEM_FIELDS == {RID, <<"_self">>, <<"_etag">>, <<"_attachments">>, TS}

\* strip_system_fields
RECURSIVE strip_system_fields(_)
strip_system_fields(v) ==
    IF v.t = "m"
    THEN M([k \in DOMAIN v.f \ SYSTEM_FIELDS |-> strip_system_fields(v.f[k])])
    ELSE IF v.t = "a" THEN A([i \in DOMAIN v.e |-> strip_system_fields(v.e[i])])
    ELSE v

-----------------------------------------------------------------------------
(* The round trip of one document: shred, write, read, stitch *)

\* The parent file <container>.csv is files[CONTAINER]; a child table's file
\* is files[table name].
CONTAINER == <<"container">>

\* The documents tried: field a holds any of Values, field b one of a few
\* values, and the document may carry the system fields _rid and _ts.
Scalar == S("x")
InnerArray == A(<<M(<<"a">> :> Scalar)>>)
SeqsUpTo(X, n) == UNION {[1..m -> X] : m \in 0..n}

\* An object-array nested in an object-array, with elements that differ:
\* {"a": [{"b": [{"c": "x"}, {"c": "y"}]}, {"b": [{"c": "y"}]}]}.
NestedDoc ==
    (<<"a">> :> A(<<M(<<"b">> :> A(<<M(<<"c">> :> S("x")), M(<<"c">> :> S("y"))>>)),
                    M(<<"b">> :> A(<<M(<<"c">> :> S("y"))>>))>>))

\* An element with two object-arrays, the key of one a suffix of the other's:
\* {"a": [{"b": [{"a": "x"}], "cb": [{"b": "x"}]}]}.
SuffixDoc ==
    (<<"a">> :> A(<<M((<<"b">> :> A(<<M(<<"a">> :> S("x"))>>))
                      @@ (<<"c", "b">> :> A(<<M(<<"b">> :> S("x"))>>)))>>))

Docs ==
    LET Keys == {<<"a">>, <<"b">>}
        FlatObjs == {EmptyMap} \cup {(k :> Scalar) : k \in Keys}
        Elems1 == {Scalar} \cup {M(o) : o \in FlatObjs}
        Arrays1 == {A(e) : e \in SeqsUpTo(Elems1, MaxArr)}
        Elems2 == {M(<<"a">> :> Scalar), M(<<"b">> :> InnerArray), M(<<"b">> :> A(<<>>))}
        Arrays2 == {A(e) : e \in SeqsUpTo(Elems2, MaxArr) \ {<<>>}}
        Values == {Scalar, NULL} \cup {M(o) : o \in FlatObjs} \cup {M(<<"b">> :> InnerArray)}
                  \cup Arrays1 \cup Arrays2
        Extras == {EmptyMap, (<<"b">> :> Scalar), (<<"b">> :> InnerArray)}
        SystemFields == {EmptyMap, (RID :> S("R0")) @@ (TS :> S("x"))}
    IN {Update(Update((<<"a">> :> v), x), sys) : v \in Values, x \in Extras, sys \in SystemFields}
       \cup {NestedDoc, SuffixDoc}

ImpInit ==
    [heap |-> <<>>, batch_parents |-> <<>>, all_objects_by_rid |-> <<>>, ridOrder |-> <<>>,
     rid_to_parent |-> <<>>, parent_rids |-> {}, rids_by_depth |-> <<>>, tableOrder |-> <<>>,
     child_objects_by_table |-> <<>>, arrays_with_markers |-> <<>>, markerOrder |-> <<>>,
     todo |-> <<>>, nextOid |-> 1, child_rows |-> 0, loaded_rids |-> {}]

\* The other specifications' variables while the round trip runs.
WriterIdle ==
    /\ csvFile = NoFile
    /\ table_schema = NoneCols
    /\ written = <<>>
    /\ calls = 0

RunInit ==
    [pk_path |-> "", pk_values |-> [t |-> "none"], pending |-> <<>>, batch_num |-> 0,
     parent_schema |-> NoneCols, child_schemas |-> <<>>, docs_processed |-> 0, next |-> 1]

ReaderIdle ==
    /\ pages = <<>>
    /\ batch_size = 1
    /\ batch = <<>>
    /\ yielded = <<>>
    /\ consumed = <<>>
    /\ rpc = "idle"

ControlIdle ==
    /\ self = <<>>
    /\ clock = 0
    /\ sleeps = <<>>
    /\ world = <<>>
    /\ cpc = "idle"

ExportIdle ==
    /\ params = <<>>
    /\ cosmos = <<>>
    /\ store = <<>>
    /\ earlier = FALSE
    /\ xpc = "idle"
    /\ status = "idle"
    /\ run = RunInit
    /\ writeLog = <<>>
    /\ shredded = <<>>

ShredIdle ==
    /\ pc = "idle"
    /\ doc = <<>>
    /\ arrayBatch = 1
    /\ parent_fields = <<>>
    /\ queue = <<>>
    /\ current_batch = <<>>
    /\ child_tables = <<>>
    /\ nextRid = 1
    /\ behind = <<>>
    /\ files = <<>>
    /\ imp = ImpInit
    /\ result = <<>>

Init ==
    /\ WriterIdle
    /\ ControlIdle
    /\ ExportIdle
    /\ ReaderIdle
    /\ pc = "start"
    /\ doc \in Docs
    /\ arrayBatch \in 1..MaxFlush
    /\ parent_fields = <<>>
    /\ queue = <<>>
    /\ current_batch = <<>>
    /\ child_tables = <<>>
    /\ nextRid = 1
    /\ behind = <<>>
    /\ files = <<>>
    /\ imp = ImpInit
    /\ result = <<>>

\* process_document_batch for the one document, then the writes of the first
\* batch: the parent file and every child table, each in mode "write".
UploadTables ==
    /\ pc = "drain"
    /\ queue = <<>>
    /\ LET tables == final_children
       IN files' = [t \in {CONTAINER} \cup DOMAIN tables |->
                       upload_csv_to_adls(NoFile,
                                          IF t = CONTAINER THEN <<parent_fields>> ELSE tables[t],
                                          "write", NoneCols).file]
    /\ pc' = "written"
    /\ UNCHANGED <<doc, arrayBatch, parent_fields, queue, current_batch, child_tables,
                   nextRid, behind, imp, result>>
    /\ UNCHANGED nonShredVars

\* _prepare_batch_parents and the head of process_batch (lines 1134-1144) for
\* the parent rows of one batch, with the child tables found under the export
\* directory.
prepare_batch(rows, tables) ==
    LET n == Len(rows)
        parents == [i \in 1..n |-> PrepareParent(rows[i])]
        hasRid(i) == RID \in DOMAIN parents[i] /\ Truthy(parents[i][RID])
        rids == {parents[i][RID].v : i \in {j \in 1..n : hasRid(j)}}
        lastOf(r) == CHOOSE i \in 1..n : /\ hasRid(i) /\ parents[i][RID].v = r
                                         /\ \A j \in 1..n : (hasRid(j) /\ parents[j][RID].v = r) => j <= i
        firstOf(r) == CHOOSE i \in 1..n : /\ hasRid(i) /\ parents[i][RID].v = r
                                          /\ \A j \in 1..n : (hasRid(j) /\ parents[j][RID].v = r) => i <= j
        firsts == {firstOf(r) : r \in rids}
        order == [k \in 1..Cardinality(rids) |->
                     parents[CHOOSE i \in firsts : Cardinality({j \in firsts : j < i}) = k - 1][RID].v]
        rid_to_parent == [r \in rids |-> lastOf(r)]
    IN [ImpInit EXCEPT
          !.heap = parents,
          !.nextOid = n + 1,
          !.batch_parents = [i \in 1..n |-> i],
          !.rid_to_parent = rid_to_parent,
          !.all_objects_by_rid = rid_to_parent,
          !.ridOrder = order,
          !.parent_rids = rids,
          !.rids_by_depth = (0 :> rids),
          !.todo = SortByDepth(tables, 0)]

\* The one batch of the round trip: every row of the parent file.
ReadParents ==
    /\ pc = "written"
    /\ imp' = prepare_batch(ReadCsv(files[CONTAINER]), DOMAIN files \ {CONTAINER})
    /\ pc' = "load"
    /\ UNCHANGED <<doc, arrayBatch, parent_fields, queue, current_batch, child_tables,
                   nextRid, behind, files, result>>
    /\ UNCHANGED nonShredVars

\* One iteration of "for csv_info in csv_info_by_depth[current_depth]".
LoadChild ==
    /\ pc = "load"
    /\ imp.todo # <<>>
    /\ LET arr_name == Head(imp.todo)
           current_depth == DotCount(arr_name)
           st0 == [imp EXCEPT
                     !.todo = Tail(@),
                     !.rids_by_depth = IF current_depth + 1 \in DOMAIN @ THEN @
                                       ELSE Put(@, current_depth + 1, {})]
           filter_rids == determine_filter_rids(arr_name, current_depth, st0)
       IN imp' = IF filter_rids = {} THEN st0
                 ELSE process_child_csv_streaming(files[arr_name], filter_rids, arr_name,
                                                  current_depth, st0)
    /\ UNCHANGED <<pc, doc, arrayBatch, parent_fields, queue, current_batch, child_tables,
                   nextRid, behind, files, result>>
    /\ UNCHANGED nonShredVars

\* _record_array_markers and _initialize_arrays_from_markers.
RecordAndInitialize ==
    /\ pc = "load"
    /\ imp.todo = <<>>
    /\ imp' = [initialize_arrays_from_markers(record_array_markers(imp)) EXCEPT
                 !.todo = StableByDots(imp.tableOrder, 0)]
    /\ pc' = "assign"
    /\ UNCHANGED <<doc, arrayBatch, parent_fields, queue, current_batch, child_tables,
                   nextRid, behind, files, result>>
    /\ UNCHANGED nonShredVars

\* One iteration of "for arr_name, objects in sorted_tables".
AssignTable ==
    /\ pc = "assign"
    /\ imp.todo # <<>>
    /\ imp' = [assign_table(Head(imp.todo), imp) EXCEPT !.todo = Tail(imp.todo)]
    /\ UNCHANGED <<pc, doc, arrayBatch, parent_fields, queue, current_batch, child_tables,
                   nextRid, behind, files, result>>
    /\ UNCHANGED nonShredVars

\* _clean_documents and strip_system_fields: the documents handed to the upsert.
Finalize ==
    /\ pc = "assign"
    /\ imp.todo = <<>>
    /\ result' = [i \in 1..Len(imp.batch_parents) |->
                     strip_system_fields(M(clean_document(
                         Resolve(imp.heap, M(imp.heap[imp.batch_parents[i]])).f))).f]
    /\ pc' = "done"
    /\ UNCHANGED <<doc, arrayBatch, parent_fields, queue, current_batch, child_tables,
                   nextRid, behind, files, imp>>
    /\ UNCHANGED nonShredVars

Next ==
    \/ ShredRoot
    \/ ShredStep
    \/ UploadTables
    \/ ReadParents
    \/ LoadChild
    \/ RecordAndInitialize
    \/ AssignTable
    \/ Finalize

Spec == Init /\ [][Next]_vars

\* strip_system(d) of the round-trip law.
StripSystem(d) == strip_system_fields(M(d)).f

-----------------------------------------------------------------------------
(* Claims about the shredder and the round trip (checked under Spec) *)

\* The shredder has returned: parent_fields and final_children are its output.
ShredReturned == pc # "start" /\ queue = <<>>

\* An array the claims call an object-array: it holds at least one mapping.
IsObjectArray(v) == IsList(v) /\ dict_items(v) # <<>>

\* The rows of the output, each with the table it belongs to (<<>>: the parent row).
OutputRows ==
    {[table |-> <<>>, row |-> parent_fields]}
    \cup UNION {{[table |-> t, row |-> final_children[t][i]] : i \in 1..Len(final_children[t])} :
                 t \in DOMAIN final_children}

\* The rows of table t whose _parent_rid is rid, in file order.
RowsUnder(t, rid) ==
    IF t \in DOMAIN final_children
    THEN SelectSeq(final_children[t], LAMBDA c : c[PARENT_RID] = S(rid))
    ELSE <<>>

\* The flattened fields of the object a row was made from.
FlatBehind(r) == flatten_no_arrays(behind[r[RID].v], <<>>)

\* The paths p for which table JoinKey(t, p) exists or the row could carry a marker.
PathsFrom(t, r) ==
    DOMAIN FlatBehind(r)
    \cup {MarkerName(k) : k \in {c \in DOMAIN r : IsMarker(c)}}
    \cup {p \in {SubSeq(u, Len(t) + 2, Len(u)) : u \in {v \in DOMAIN final_children : Len(v) > Len(t) + 1}} :
            t # <<>> /\ \E u \in DOMAIN final_children : u = JoinKey(t, p)}
    \cup {u \in DOMAIN final_children : t = <<>>}

\* C1 (round trip): exporting a document and importing it again yields the
\* document without its system fields: same keys at every level, same nesting,
\* arrays equal element by element.
RoundTrip == pc = "done" => result = <<StripSystem(doc)>>

\* C2 (marker law): in the shredder's output a row r of table T carries
\* _has_array_<p> exactly when the object behind r had an object-array at the
\* flattened path p; the rows of table T.<p> under r are the elements of that
\* array, and there is no row under r in that table when r has no marker for p.
MarkerLaw ==
    ShredReturned =>
        \A o \in OutputRows :
            \A p \in PathsFrom(o.table, o.row) :
                LET flat == FlatBehind(o.row)
                    under == RowsUnder(JoinKey(o.table, p), o.row[RID].v)
                IN /\ (Marker(p) \in DOMAIN o.row) <=> (p \in DOMAIN flat /\ IsObjectArray(flat[p]))
                   /\ Marker(p) \in DOMAIN o.row =>
                          /\ p \in DOMAIN flat /\ IsList(flat[p])
                          /\ Len(under) = Len(dict_items(flat[p]))
                          /\ \A i \in 1..Len(under) :
                                 behind[under[i][RID].v] = dict_items(flat[p])[i].f
                   /\ Marker(p) \notin DOMAIN o.row => under = <<>>

\* The marker law with "object-array" read as "an array that is not kept as a
\* value of the row" (an empty array included).
MarkerLawOfCode ==
    ShredReturned =>
        \A o \in OutputRows :
            \A p \in PathsFrom(o.table, o.row) :
                LET flat == FlatBehind(o.row)
                    under == RowsUnder(JoinKey(o.table, p), o.row[RID].v)
                IN /\ (Marker(p) \in DOMAIN o.row)
                        <=> (p \in DOMAIN flat /\ IsList(flat[p]) /\ ~KeepsArrayInRow(flat[p]))
                   /\ Marker(p) \in DOMAIN o.row =>
                          /\ Len(under) = Len(dict_items(flat[p]))
                          /\ \A i \in 1..Len(under) :
                                 behind[under[i][RID].v] = dict_items(flat[p])[i].f
                   /\ Marker(p) \notin DOMAIN o.row => under = <<>>

\* t is the parent table (<<>>) or a table whose path is a proper prefix of u.
ProperPrefix(t, u) ==
    \/ t = <<>> /\ u # <<>>
    \/ Len(t) + 1 < Len(u) /\ SubSeq(u, 1, Len(t) + 1) = t \o <<DOT>>

\* The object behind row c is an element of an array of the object behind row
\* r, at the path that leads from r's table to c's table.
DirectlyEncloses(r, c) ==
    /\ ProperPrefix(r.table, c.table)
    /\ LET p == IF r.table = <<>> THEN c.table
                ELSE SubSeq(c.table, Len(r.table) + 2, Len(c.table))
           flat == FlatBehind(r.row)
       IN /\ p \in DOMAIN flat
          /\ IsList(flat[p])
          /\ \E i \in 1..Len(flat[p].e) : flat[p].e[i] = M(behind[c.row[RID].v])

\* C3 (parent linkage): every child row of the shredder's output has a
\* _parent_rid, and it is the _rid of exactly one row of the same output: the
\* row of the object that directly encloses the array element, which is the
\* parent row or a row of a table whose path is a proper prefix of the child's.
ParentLinkage ==
    ShredReturned =>
        \A c \in OutputRows :
            c.table # <<>> =>
                /\ PARENT_RID \in DOMAIN c.row
                /\ Cardinality({r \in OutputRows : r.row[RID] = c.row[PARENT_RID]}) = 1
                /\ \A r \in OutputRows :
                       r.row[RID] = c.row[PARENT_RID] => DirectlyEncloses(r, c)

\* A finished shred whose output has a row of a child table under a row of
\* another child table.
ParentLinkageWitness ==
    /\ ShredReturned
    /\ \E c \in OutputRows, r \in OutputRows :
           /\ c.table # <<>>
           /\ r.table # <<>>
           /\ r.row[RID] = c.row[PARENT_RID]

\* C27 (empty array on export): shredding a document whose field holds an
\* empty array keeps the array as the value of that field in the parent row
\* and emits no _has_array_ marker for it and no child table.
EmptyArrayKept ==
    (ShredReturned /\ doc[<<"a">>] = A(<<>>)) =>
        /\ <<"a">> \in DOMAIN parent_fields
        /\ parent_fields[<<"a">>] = A(<<>>)
        /\ Marker(<<"a">>) \notin DOMAIN parent_fields
        /\ <<"a">> \notin DOMAIN final_children

\* The part of it the shredder keeps: an empty array gives no child table.
EmptyArrayGivesNoTable ==
    (ShredReturned /\ doc[<<"a">>] = A(<<>>)) => <<"a">> \notin DOMAIN final_children

\* res has no key that src lacks: the keys of every mapping of res are keys
\* of the mapping of src at the same place (the elements of an array that was
\* shredded are compared with the mappings of the source array, in order).
RECURSIVE NoKeyAdded(_, _)
NoKeyAdded(res, src) ==
    IF res.t = "m"
    THEN /\ src.t = "m"
         /\ DOMAIN res.f \subseteq DOMAIN src.f
         /\ \A k \in DOMAIN res.f : NoKeyAdded(res.f[k], src.f[k])
    ELSE IF res.t = "a"
    THEN /\ src.t = "a"
         /\ \/ KeepsArrayInRow(src)
            \/ /\ Len(res.e) = Len(dict_items(src))
               /\ \A i \in 1..Len(res.e) : NoKeyAdded(res.e[i], dict_items(src)[i])
    ELSE TRUE

\* C28 (null on read): when a table mixes rows that have a key or a marker
\* with rows that do not, the import rebuilds each document without the keys
\* its row lacked: an empty cell becomes no field and counts as no marker, so
\* no array is made where the document had none.
NullOnRead ==
    pc = "done" => NoKeyAdded(M(result[1]), M(StripSystem(doc)))

\* The same for the documents whose tables hold rows of one shape only, no
\* row carrying two markers.
NullOnReadOfUniformTables ==
    (/\ pc = "done"
     /\ \A o \in OutputRows : Cardinality({k \in DOMAIN o.row : IsMarker(k)}) <= 1
     /\ \A t \in DOMAIN files : \A i \in 1..Len(files[t].rows) :
            \A j \in 1..Len(files[t].rows[i]) : files[t].rows[i][j] # S(""))
        => NoKeyAdded(M(result[1]), M(StripSystem(doc)))

\* The object the stitcher holds for a rid, the value at a dotted path of an
\* object, and the output row with a given rid.
ObjectOf(rid) == imp.heap[imp.all_objects_by_rid[rid]]

RECURSIVE ValueAt(_, _)
ValueAt(obj, parts) ==
    IF Head(parts) \notin DOMAIN obj THEN NULL
    ELSE IF Len(parts) = 1 THEN obj[Head(parts)]
    ELSE IF IsDict(obj[Head(parts)]) THEN ValueAt(obj[Head(parts)].f, Tail(parts))
    ELSE NULL

RowOfRid(rid) == CHOOSE r \in OutputRows : r.row[RID] = S(rid)

\* C29 (attachment path): after stitching, the children of table T whose
\* _parent_rid is R are the elements of the array of object R at the marker
\* path p under which the shredder extracted them (T is p, or the table of R
\* followed by "." and p), in file order, also when R carries several markers
\* of which one is a string suffix of another.
AttachmentPath ==
    pc = "done" =>
        \A c \in OutputRows :
            c.table # <<>> =>
                LET R == c.row[PARENT_RID].v
                    r == RowOfRid(R)
                    p == IF r.table = <<>> THEN c.table
                         ELSE SubSeq(c.table, Len(r.table) + 2, Len(c.table))
                    under == RowsUnder(c.table, R)
                    arr == ValueAt(ObjectOf(R), Split(p))
                IN Marker(p) \in DOMAIN r.row =>
                       /\ arr.t = "a"
                       /\ arr.e = [i \in 1..Len(under) |->
                                      Ref(imp.all_objects_by_rid[under[i][RID].v])]

\* The same for the documents in which no row carries two markers.
AttachmentPathOfSingleMarkers ==
    (/\ pc = "done"
     /\ \A o \in OutputRows : Cardinality({k \in DOMAIN o.row : IsMarker(k)}) <= 1)
        => \A c \in OutputRows :
               c.table # <<>> =>
                   LET R == c.row[PARENT_RID].v
                       r == RowOfRid(R)
                       p == IF r.table = <<>> THEN c.table
                            ELSE SubSeq(c.table, Len(r.table) + 2, Len(c.table))
                       under == RowsUnder(c.table, R)
                       arr == ValueAt(ObjectOf(R), Split(p))
                   IN Marker(p) \in DOMAIN r.row =>
                          /\ arr.t = "a"
                          /\ arr.e = [i \in 1..Len(under) |->
                                         Ref(imp.all_objects_by_rid[under[i][RID].v])]

\* A document whose field a is an object-array of elements that each hold an
\* object-array b of elements with one and the same key, and nothing else
\* that is shredded.
IsNested(d) ==
    /\ d[<<"a">>].t = "a"
    /\ d[<<"a">>].e # <<>>
    /\ \A i \in 1..Len(d[<<"a">>].e) :
           LET el == d[<<"a">>].e[i]
           IN /\ el.t = "m"
              /\ DOMAIN el.f = {<<"b">>}
              /\ el.f[<<"b">>].t = "a"
              /\ el.f[<<"b">>].e # <<>>
              /\ \A j \in 1..Len(el.f[<<"b">>].e) :
                     /\ el.f[<<"b">>].e[j].t = "m"
                     /\ DOMAIN el.f[<<"b">>].e[j].f = DOMAIN d[<<"a">>].e[1].f[<<"b">>].e[1].f
    /\ \A k \in DOMAIN d \ {<<"a">>} : d[k].t = "s"

\* C30 (nested arrays): for a document with an object-array nested in an
\* object-array, shredding produces exactly the tables a and a.b, every a.b
\* row lies under the a row of the element that held it, and stitching
\* recovers the document, the innermost values three levels deep, with the
\* order of the elements kept.
NestedArrays ==
    IsNested(doc) =>
        /\ ShredReturned =>
               /\ DOMAIN final_children = {<<"a">>, <<"a", DOT, "b">>}
               /\ \A c \in OutputRows :
                      c.table = <<"a", DOT, "b">> =>
                          \E r \in OutputRows :
                              /\ r.table = <<"a">>
                              /\ r.row[RID] = c.row[PARENT_RID]
                              /\ \E j \in 1..Len(behind[r.row[RID].v][<<"b">>].e) :
                                     behind[r.row[RID].v][<<"b">>].e[j].f = behind[c.row[RID].v]
        /\ pc = "done" => result = <<StripSystem(doc)>>

\* The round trip of the document with two elements, the first of which holds
\* two inner elements, is finished.
NestedArraysWitness ==
    /\ pc = "done"
    /\ doc = NestedDoc
    /\ Len(final_children[<<"a", DOT, "b">>]) = 3
    /\ result[1][<<"a">>].e[1].f[<<"b">>].e[2].f[<<"c">>] = S("y")

\* The place of the row with a given rid in its table (0: the parent row).
RowIndex(rid) ==
    IF parent_fields[RID] = S(rid) THEN 0
    ELSE LET t == CHOOSE u \in DOMAIN final_children :
                      \E i \in 1..Len(final_children[u]) : final_children[u][i][RID] = S(rid)
         IN CHOOSE i \in 1..Len(final_children[t]) : final_children[t][i][RID] = S(rid)

\* The rows the shredder has still to make from an object, its own row
\* included, and from the items of a queue.
RECURSIVE RowsToMake(_)
RowsToMake(objects) ==
    IF objects = <<>> THEN 0
    ELSE LET flat == flatten_no_arrays(Head(objects), <<>>)
             keys == Sorted({p \in DOMAIN flat : IsList(flat[p]) /\ ~KeepsArrayInRow(flat[p])})
             inner == Concat([i \in 1..Len(keys) |->
                                 [j \in 1..Len(dict_items(flat[keys[i]])) |->
                                     dict_items(flat[keys[i]])[j].f]])
         IN 1 + RowsToMake(inner) + RowsToMake(Tail(objects))

QueueWork(q) == RowsToMake([i \in 1..Len(q) |-> q[i].item])

\* C37 (shredder drain): the queue-based shredder terminates (every turn of
\* the loop "while queue" takes one from the rows that are left to make); each object
\* element of each array that is shredded, at any depth, gives exactly one
\* child row in the table named by the dot-joined path of its array; the rows
\* of a table are in queue (breadth-first) order; and the tables are the same
\* for every value of the flush threshold: flushing a buffer neither loses
\* nor duplicates a row.
ShredderDrain ==
    /\ [](ShredReturned =>
            /\ parent_fields = extract_arrays_iterative_optimized(doc, 1).parent
            /\ final_children = extract_arrays_iterative_optimized(doc, 1).children
            /\ \A o \in OutputRows :
                   \A p \in DOMAIN FlatBehind(o.row) :
                       LET value == FlatBehind(o.row)[p]
                           under == RowsUnder(JoinKey(o.table, p), o.row[RID].v)
                       IN (IsList(value) /\ ~KeepsArrayInRow(value)) =>
                              /\ Len(under) = Len(dict_items(value))
                              /\ \A i \in 1..Len(under) :
                                     behind[under[i][RID].v] = dict_items(value)[i].f
            /\ Cardinality(OutputRows) = Cardinality(DOMAIN behind)
            /\ \A o \in OutputRows :
                   Cardinality({r \in OutputRows : r.row[RID] = o.row[RID]}) = 1
            /\ \A t \in DOMAIN final_children :
                   \A i, j \in 1..Len(final_children[t]) :
                       i < j => RowIndex(final_children[t][i][PARENT_RID].v)
                                    <= RowIndex(final_children[t][j][PARENT_RID].v))
    /\ [][(pc = "drain" /\ queue # <<>>) =>
              /\ QueueWork(queue') = QueueWork(queue) - 1
              /\ pc' = "drain"]_vars

\* The shredder has returned the three rows of table a.b, two of them flushed
\* at the threshold and one left in the buffer.
ShredderDrainWitness ==
    /\ ShredReturned
    /\ doc = NestedDoc
    /\ arrayBatch = 2
    /\ Len(child_tables[<<"a", DOT, "b">>]) = 1
    /\ Len(current_batch[<<"a", DOT, "b">>]) = 1
    /\ Len(final_children[<<"a", DOT, "b">>]) = 3

-----------------------------------------------------------------------------
(* One table file under a sequence of upload_csv_to_adls calls (SpecWriter) *)

MaxWrites == 2      \* number of calls made on the file

\* The rows handed to the writer: _rid and any of the columns a, b.
WriterRows == {Update((RID :> S("R0")), x) :
                 x \in {EmptyMap, (<<"a">> :> Scalar), (<<"b">> :> Scalar),
                        (<<"a">> :> Scalar) @@ (<<"b">> :> NULL)}}

\* The frames handed to the writer: one or two rows (the pipeline never hands
\* it an empty frame).
WriterFrames == {<<r>> : r \in WriterRows} \cup {<<r, q>> : r \in WriterRows, q \in WriterRows}

\* A file left at the same path by an earlier run.
StaleFile == [exists |-> TRUE, header |-> <<<<"d">>>>, rows |-> <<<<Scalar>>>>]

InitWriter ==
    /\ ControlIdle
    /\ ShredIdle
    /\ ExportIdle
    /\ ReaderIdle
    /\ csvFile \in {NoFile, StaleFile}
    /\ table_schema = NoneCols
    /\ written = <<>>
    /\ calls = 0

\* One call: mode "write" for the first, "append" after, each passing the
\* column set the previous call returned.
WriteCall ==
    /\ calls < MaxWrites
    /\ \E df \in WriterFrames :
          LET out == upload_csv_to_adls(csvFile, df,
                                        IF calls = 0 THEN "write" ELSE "append",
                                        table_schema)
          IN /\ csvFile' = out.file
             /\ table_schema' = SomeCols(out.known)
             /\ written' = written \o df
    /\ calls' = calls + 1
    /\ UNCHANGED nonWriterVars

SpecWriter == InitWriter /\ [][WriteCall]_vars

\* C4 (schema union): after the calls made so far the file has one header, the
\* sorted union of the columns of all rows written; it has one line per row
\* written, each with one cell per header column; a row holds null in every
\* column it lacks, whether the column appeared before or after the row.
SchemaUnion ==
    calls > 0 =>
        /\ csvFile.exists
        /\ csvFile.header = Sorted(Columns(written))
        /\ Len(csvFile.rows) = Len(written)
        /\ \A i \in 1..Len(written) :
               /\ Len(csvFile.rows[i]) = Len(csvFile.header)
               /\ \A j \in 1..Len(csvFile.header) :
                      csvFile.rows[i][j] =
                          IF csvFile.header[j] \in DOMAIN written[i]
                          THEN CellText(written[i][csvFile.header[j]])
                          ELSE EMPTY

\* Two calls were made and the later one brought a column the first row lacks.
SchemaUnionWitness ==
    /\ calls >= 2
    /\ \E c \in Range(csvFile.header) : c \notin DOMAIN written[1]

-----------------------------------------------------------------------------
(* One export run: process_cosmos_to_adls_activity (SpecExport) *)

MaxDocs == 2        \* documents in the container
MaxBatch == 2       \* largest batch_size tried

\* The container of the model is partitioned by the field b.
PK_FIELD == <<"b">>
ContainerPkPaths == <<"/b">>

\* partition_key_value as it arrives: absent, a list, or a string together with
\* what json.loads makes of it ([t |-> "none"]: it is not JSON).  A Python str
\* is the sequence of its characters.
PkNone == [t |-> "none"]
PkList(e) == [t |-> "list", e |-> e]
PkStr(chars, json) == [t |-> "str", chars |-> chars, json |-> json]

\* The str as one value.
RECURSIVE StrOf(_)
StrOf(chars) == IF chars = <<>> THEN "" ELSE Head(chars) \o StrOf(Tail(chars))

\* bool(x) of a partition_key_value / pk_values.
HasValue(v) ==
    /\ v.t # "none"
    /\ v.t = "list" => v.e # <<>>
    /\ v.t = "str" => v.chars # <<>>

\* Iterating pk_values (for ... in, set(...)): a list gives its elements, a str
\* its characters.
PkElements(v) ==
    IF v.t = "list" THEN v.e
    ELSE IF v.t = "str" THEN [i \in 1..Len(v.chars) |-> v.chars[i]]
    ELSE <<>>

\* The values in order of first appearance, without repetition.
RECURSIVE Distinct(_, _)
Distinct(seq, acc) ==
    IF seq = <<>> THEN acc
    ELSE Distinct(Tail(seq), IF Head(seq) \in Range(acc) THEN acc ELSE acc \o <<Head(seq)>>)

\* CosmosMetadata.discover_partition_values: SELECT DISTINCT VALUE c.b, the
\* nulls (and the documents without the field) left out.
discover_partition_values(docs) ==
    LET withPk == SelectSeq(docs, LAMBDA d : PK_FIELD \in DOMAIN d /\ d[PK_FIELD] # NULL)
    IN Distinct([i \in 1..Len(withPk) |-> withPk[i][PK_FIELD].v], <<>>)

ConfigError == [error |-> TRUE, pk_path |-> "", pk_values |-> PkNone]
Configured(path, values) == [error |-> FALSE, pk_path |-> path, pk_values |-> values]

\* setup_partition_configuration; the path None is "".
setup_partition_configuration(p, docs) ==
    LET partition_key_path == p.partition_key_path
        partition_key_values == p.partition_key_value
        has_pk_path == partition_key_path # ""
        has_pk_values == HasValue(partition_key_values)
        pk_values == IF partition_key_values.t = "str"
                     THEN IF partition_key_values.json.t # "none"
                          THEN partition_key_values.json
                          ELSE PkList(<<StrOf(partition_key_values.chars)>>)
                     ELSE partition_key_values
        discovered_values == discover_partition_values(docs)
    IN IF has_pk_path # has_pk_values THEN ConfigError
       ELSE IF has_pk_path
       THEN IF ~HasValue(pk_values) THEN ConfigError
            ELSE IF partition_key_path \notin Range(ContainerPkPaths) THEN ConfigError
            ELSE IF Range(PkElements(pk_values)) \ Range(discovered_values) # {} THEN ConfigError
            ELSE Configured(partition_key_path, pk_values)
       ELSE IF ContainerPkPaths # <<>>
       THEN Configured(ContainerPkPaths[1], PkList(discovered_values))
       ELSE Configured("", PkNone)

\* _process_query_results over the results of one query: batches of batch_size
\* documents, the last one possibly shorter.
RECURSIVE Chunks(_, _)
Chunks(docs, n) ==
    IF docs = <<>> THEN <<>>
    ELSE IF Len(docs) <= n THEN <<docs>>
    ELSE <<SubSeq(docs, 1, n)>> \o Chunks(SubSeq(docs, n + 1, Len(docs)), n)

\* _stream_partition: SELECT * FROM c WHERE c.b = @value.
stream_partition(docs, pk_value, n) ==
    Chunks(SelectSeq(docs, LAMBDA d : PK_FIELD \in DOMAIN d /\ d[PK_FIELD] = S(pk_value)), n)

RECURSIVE StreamPartitions(_, _, _)
StreamPartitions(docs, values, n) ==
    IF values = <<>> THEN <<>>
    ELSE stream_partition(docs, Head(values), n) \o StreamPartitions(docs, Tail(values), n)

\* A reader that runs one query over all the selected partitions and batches
\* its results together.
StreamAcrossPartitions(docs, pk_values, n) ==
    Chunks(SelectSeq(docs, LAMBDA d : \/ ~HasValue(pk_values)
                                      \/ /\ PK_FIELD \in DOMAIN d
                                         /\ d[PK_FIELD] # NULL
                                         /\ d[PK_FIELD].v \in Range(PkElements(pk_values))), n)

\* StreamingCosmosReader.stream_documents: the batches it yields, in order.
stream_documents(docs, pk_values, n) ==
    IF HasValue(pk_values) THEN StreamPartitions(docs, PkElements(pk_values), n)
    ELSE Chunks(docs, n)

\* process_document_batch: the parent rows and, per child table, the rows of
\* the batch.
RECURSIVE ShredBatch(_, _)
ShredBatch(batch_docs, acc) ==
    IF batch_docs = <<>> THEN acc
    ELSE LET merged(out) ==
                 [parents |-> acc.parents \o <<out.parent>>,
                  children |-> [t \in DOMAIN acc.children \cup DOMAIN out.children |->
                                   (IF t \in DOMAIN acc.children THEN acc.children[t] ELSE <<>>)
                                   \o (IF t \in DOMAIN out.children THEN out.children[t] ELSE <<>>)],
                  next |-> out.next]
             rest(a) == ShredBatch(Tail(batch_docs), a)
         IN Strict(rest, Strict(merged, extract_arrays_iterative_optimized(Head(batch_docs), acc.next)))

process_document_batch(batch_docs, next) ==
    ShredBatch(batch_docs, [parents |-> <<>>, children |-> <<>>, next |-> next])

\* The file of a table: <name>.csv, or <name>_batch_NNN.csv (batch > 0).
FileOf(table, separate, batch_num) ==
    [table |-> table, batch |-> IF separate THEN batch_num ELSE 0]

FileAt(st, key) == IF key \in DOMAIN st THEN st[key] ELSE NoFile

\* An export that overwrites the parent file in every batch.
ParentModeAlwaysWrite(batch_num) == "write"

\* mode = "append" if batch_num > 1 else "write"
ParentMode(batch_num) == IF batch_num > 1 THEN "append" ELSE "write"

\* The loop of upload_child_tables; acc = [store, child_schemas, log, raised].
\* With separate files, reading child_schemas[arr_name] of a table not yet in
\* child_schemas raises KeyError.
RECURSIVE UploadChildren(_, _, _, _, _, _)
UploadChildren(tables, children, batch_num, mode, separate, acc) ==
    IF tables = <<>> \/ acc.raised THEN acc
    ELSE LET arr_name == Head(tables)
             key == FileOf(arr_name, separate, batch_num)
             child_mode == IF separate THEN "write" ELSE mode
             known == IF separate \/ arr_name \notin DOMAIN acc.child_schemas
                      THEN NoneCols ELSE acc.child_schemas[arr_name]
             out == upload_csv_to_adls(FileAt(acc.store, key), children[arr_name],
                                       child_mode, known)
         IN IF separate /\ arr_name \notin DOMAIN acc.child_schemas
            THEN [acc EXCEPT !.raised = TRUE]
            ELSE LET rest(a) == UploadChildren(Tail(tables), children, batch_num, mode, separate, a)
                     uploaded(o) ==
                         [store |-> Put(acc.store, key, o.file),
                          child_schemas |-> Put(acc.child_schemas, arr_name, SomeCols(o.known)),
                          log |-> acc.log \o <<[table |-> arr_name, batch |-> batch_num,
                                               file |-> key, mode |-> child_mode]>>,
                          raised |-> FALSE]
                 IN Strict(rest, Strict(uploaded, out))

\* The documents of the container: each has its _rid, the partition field b
\* (a value or null) and a field a that is a scalar or an object-array.
DocShapes ==
    {(PK_FIELD :> S("a")) @@ (<<"a">> :> Scalar),
     (PK_FIELD :> S("a")) @@ (<<"a">> :> InnerArray),
     (PK_FIELD :> S("b")) @@ (<<"a">> :> InnerArray),
     (PK_FIELD :> NULL) @@ (<<"a">> :> Scalar)}

Containers ==
    {[i \in 1..Len(shapes) |-> Put(shapes[i], RID, S("d" \o ToString(i)))] :
        shapes \in SeqsUpTo(DocShapes, MaxDocs)}

\* The partition filters a caller may pass: (path, value).
PkConfigs ==
    {<<"", PkNone>>,
     <<"/b", PkList(<<"a">>)>>,
     <<"/b", PkList(<<"a", "a">>)>>,
     <<"/b", PkList(<<"a", "b">>)>>,
     <<"/b", PkList(<<"c">>)>>,
     <<"/b", PkStr(<<"a">>, PkNone)>>,
     <<"/b", PkStr(<<"\"", "a", "b", "\"">>, [t |-> "str", chars |-> <<"a", "b">>])>>,
     <<"/b", PkNone>>,
     <<"", PkList(<<"a">>)>>,
     <<"/zz", PkList(<<"a">>)>>}

\* The files an earlier run of the same export left behind.
OLD == S("old")
StaleStore ==
    (FileOf(CONTAINER, FALSE, 0) :>
        [exists |-> TRUE, header |-> <<Marker(<<"a">>), RID, PK_FIELD>>,
         rows |-> <<<<TRUE_CELL, OLD, Scalar>>>>])
    @@ (FileOf(<<"a">>, FALSE, 0) :>
        [exists |-> TRUE, header |-> <<PARENT_RID, RID, <<"a">>>>,
         rows |-> <<<<OLD, OLD, Scalar>>>>])

InitialStore == IF earlier THEN StaleStore ELSE <<>>

InitExport ==
    /\ ControlIdle
    /\ ShredIdle
    /\ WriterIdle
    /\ ReaderIdle
    /\ \E c \in PkConfigs, sep \in BOOLEAN, n \in 1..MaxBatch :
          params = [partition_key_path |-> c[1], partition_key_value |-> c[2],
                    separate_files_per_batch |-> sep, batch_size |-> n]
    /\ cosmos \in Containers
    /\ earlier \in BOOLEAN
    /\ store = InitialStore
    /\ xpc = "setup"
    /\ status = "running"
    /\ run = RunInit
    /\ writeLog = <<>>
    /\ shredded = <<>>

\* Lines 1421-1443: setup_partition_configuration and the reader; a ValueError
\* ends the run with status "error".
SetupPartition ==
    /\ xpc = "setup"
    /\ LET cfg == setup_partition_configuration(params, cosmos)
       IN IF cfg.error
          THEN /\ xpc' = "done"
               /\ status' = "error"
               /\ UNCHANGED run
          ELSE /\ xpc' = "stream"
               /\ status' = status
               /\ run' = [run EXCEPT
                            !.pk_path = cfg.pk_path,
                            !.pk_values = cfg.pk_values,
                            !.pending = stream_documents(cosmos, cfg.pk_values, params.batch_size)]
    /\ UNCHANGED <<params, cosmos, store, earlier, writeLog, shredded>>
    /\ UNCHANGED nonExportVars

\* Lines 1455-1506: one iteration of "for batch_docs in stream_documents()".
ProcessBatch ==
    /\ xpc = "stream"
    /\ run.pending # <<>>
    /\ LET batch_docs == Head(run.pending)
           batch_num == run.batch_num + 1
           separate == params.separate_files_per_batch
           shred == process_document_batch(batch_docs, run.next)
           mode == IF separate THEN "write" ELSE ParentMode(batch_num)
           parent_key == FileOf(CONTAINER, separate, batch_num)
           parent_out == upload_csv_to_adls(FileAt(store, parent_key), shred.parents, mode,
                                            IF separate THEN NoneCols ELSE run.parent_schema)
           parent_entry == [table |-> CONTAINER, batch |-> batch_num,
                            file |-> parent_key, mode |-> mode]
           kids == UploadChildren(Sorted(DOMAIN shred.children), shred.children, batch_num,
                                  mode, separate,
                                  [store |-> Put(store, parent_key, parent_out.file),
                                   child_schemas |-> run.child_schemas,
                                   log |-> writeLog \o <<parent_entry>>,
                                   raised |-> FALSE])
       IN /\ store' = kids.store
          /\ writeLog' = kids.log
          /\ shredded' = shredded \o [i \in 1..Len(batch_docs) |-> batch_docs[i][RID].v]
          /\ run' = [run EXCEPT
                       !.pending = Tail(@),
                       !.batch_num = batch_num,
                       !.parent_schema = SomeCols(parent_out.known),
                       !.child_schemas = kids.child_schemas,
                       !.docs_processed = IF kids.raised THEN @ ELSE @ + Len(batch_docs),
                       !.next = shred.next]
          /\ IF kids.raised
             THEN xpc' = "done" /\ status' = "error"
             ELSE UNCHANGED <<xpc, status>>
    /\ UNCHANGED <<params, cosmos, earlier>>
    /\ UNCHANGED nonExportVars

\* Lines 1508-1534: the reader is exhausted, the run returns "success".
FinishExport ==
    /\ xpc = "stream"
    /\ run.pending = <<>>
    /\ xpc' = "done"
    /\ status' = "success"
    /\ UNCHANGED <<params, cosmos, store, earlier, run, writeLog, shredded>>
    /\ UNCHANGED nonExportVars

NextExport ==
    \/ SetupPartition
    \/ ProcessBatch
    \/ FinishExport

SpecExport == InitExport /\ [][NextExport]_vars

-----------------------------------------------------------------------------
(* Claims about the export run (checked under SpecExport) *)

Separate == params.separate_files_per_batch

\* The _rid cells of a file, in file order.
RidColumn(file) ==
    IF file.rows = <<>> THEN <<>>
    ELSE LET j == CHOOSE k \in 1..Len(file.header) : file.header[k] = RID
         IN [i \in 1..Len(file.rows) |-> file.rows[i][j].v]

Count(seq, x) == Cardinality({i \in 1..Len(seq) : seq[i] = x})

\* The parent-file part of the mode discipline: "write" in batch 1, "append" after.
ParentModesFollowBatch ==
    \A i \in 1..Len(writeLog) :
        writeLog[i].table = CONTAINER =>
            writeLog[i].mode = (IF writeLog[i].batch = 1 THEN "write" ELSE "append")

ChildModeDiscipline ==
    ~Separate =>
        \A i \in 1..Len(writeLog) :
            writeLog[i].table # CONTAINER =>
                /\ writeLog[i].mode =
                       (IF \E j \in 1..(i - 1) : writeLog[j].table = writeLog[i].table
                        THEN "append" ELSE "write")
                /\ "old" \notin Range(RidColumn(store[writeLog[i].file]))

\* The batches the reader yields in the run (after a successful setup).
Batches == stream_documents(cosmos, setup_partition_configuration(params, cosmos).pk_values,
                            params.batch_size)

Wrote(key, n) ==
    \E i \in 1..Len(writeLog) :
        writeLog[i].file = key /\ writeLog[i].batch = n /\ writeLog[i].mode = "write"

\* C7 (separate files per batch): with separateFilesPerBatch every batch n
\* writes its parent rows and each child table present in it to its own
\* batch-suffixed file, in overwrite mode; every such write takes place and no
\* two batches write the same file.
SeparateFilesPerBatch ==
    (Separate /\ xpc = "done" /\ ~setup_partition_configuration(params, cosmos).error) =>
        /\ \A n \in 1..Len(Batches) :
               /\ Wrote(FileOf(CONTAINER, TRUE, n), n)
               /\ \A t \in DOMAIN process_document_batch(Batches[n], 1).children :
                      Wrote(FileOf(t, TRUE, n), n)
        /\ \A i, j \in 1..Len(writeLog) :
               writeLog[i].file = writeLog[j].file => writeLog[i].batch = writeLog[j].batch

\* The partition values the caller supplied: the elements of a list (given as
\* a list or as JSON text), or the one string given (as JSON text or plain).
SuppliedValues(v) ==
    IF v.t = "list" THEN Range(v.e)
    ELSE IF v.t = "str"
    THEN IF v.json.t = "list" THEN Range(v.json.e)
         ELSE IF v.json.t = "str" THEN {StrOf(v.json.chars)}
         ELSE {StrOf(v.chars)}
    ELSE {}

InvalidPartitionConfig ==
    LET path == params.partition_key_path
        value == params.partition_key_value
    IN \/ (path # "") # (value.t # "none")
       \/ /\ path # ""
          /\ value.t # "none"
          /\ \/ path \notin Range(ContainerPkPaths)
             \/ SuppliedValues(value) \ Range(discover_partition_values(cosmos)) # {}

\* C8 (partition validation): when a supplied partition value is not among the
\* container's partition values, or only one of path and values is supplied, or
\* the path is not a partition-key path of the container, the run ends with an
\* error, no document is read for export and no file of ObjectStore changes.
PartitionValidation ==
    InvalidPartitionConfig =>
        /\ xpc # "setup" => status = "error"
        /\ shredded = <<>>
        /\ store = InitialStore

\* The documents the run selects: all of them without a filter, else those
\* whose partition value is among the supplied values.
Selected(d) ==
    \/ params.partition_key_value.t = "none"
    \/ /\ d[PK_FIELD] # NULL
       /\ d[PK_FIELD].v \in SuppliedValues(params.partition_key_value)

\* The parent rows written by the run, over all parent files it wrote.
ParentRids ==
    UNION {{[file |-> k, line |-> i, rid |-> RidColumn(store[k])[i]] :
               i \in 1..Len(store[k].rows)} :
           k \in {writeLog[i].file : i \in {j \in 1..Len(writeLog) : writeLog[j].table = CONTAINER}}}

\* C9 (exactly-once export): in a run that succeeds every selected document is
\* shredded exactly once and has exactly one parent row, and no other document
\* is exported; with auto-discovered partition values and with a supplied list
\* that repeats a value.
ExactlyOnce ==
    status = "success" =>
        \A i \in 1..Len(cosmos) :
            LET rid == cosmos[i][RID].v
                expected == IF Selected(cosmos[i]) THEN 1 ELSE 0
            IN /\ Count(shredded, rid) = expected
               /\ Cardinality({r \in ParentRids : r.rid = rid}) = expected

\* The place of a document in the server's result order.
ServerIndex(d) == CHOOSE i \in 1..Len(cosmos) : cosmos[i] = d

\* The batches still to come can be assigned to positions of the partition
\* value list so that f is monotone, every document of batch k has the value
\* at position f[k], and the documents of one position come in server order.
OrderedBy(bs, vs, f) ==
    /\ \A k \in 1..Len(bs) : \A i \in 1..Len(bs[k]) : bs[k][i][PK_FIELD] = S(vs[f[k]])
    /\ \A k1, k2 \in 1..Len(bs) : k1 < k2 => f[k1] <= f[k2]
    /\ \A k1, k2 \in 1..Len(bs) : \A i1 \in 1..Len(bs[k1]) : \A i2 \in 1..Len(bs[k2]) :
           (f[k1] = f[k2] /\ (k1 < k2 \/ (k1 = k2 /\ i1 < i2))) =>
               ServerIndex(bs[k1][i1]) < ServerIndex(bs[k2][i2])

\* C11 (partition ordering): with partition values [v1, v2, ...] every batch
\* the reader yields holds documents of a single partition value, all batches
\* of v_i come before any batch of v_(i+1), and the documents of one value
\* come in the order the server returns them.
PartitionOrdering ==
    (xpc = "stream" /\ HasValue(run.pk_values)) =>
        LET bs == run.pending
            vs == PkElements(run.pk_values)
        IN \E f \in [1..Len(bs) -> 1..Len(vs)] : OrderedBy(bs, vs, f)

\* Two partition values, each with its own batch still to be processed.
PartitionOrderingWitness ==
    /\ xpc = "stream"
    /\ HasValue(run.pk_values)
    /\ Len(run.pending) >= 2
    /\ run.pending[1][1][PK_FIELD] # run.pending[2][1][PK_FIELD]

-----------------------------------------------------------------------------
(* One query of the reader: StreamingCosmosReader._process_query_results
   (SpecReader) *)

MaxPages == 3       \* pages the server returns for the query
MaxPage == 3        \* largest page

\* The result of the query is the documents 1, 2, ... cut into pages of the
\* sizes given (a page may be empty).
RECURSIVE PagesOf(_, _)
PagesOf(sizes, first) ==
    IF sizes = <<>> THEN <<>>
    ELSE <<[i \in 1..Head(sizes) |-> first + i - 1]>> \o PagesOf(Tail(sizes), first + Head(sizes))

\* A reader that yields only when the batch has outgrown batch_size.
BatchOverfull(b, n) == Len(b) > n

\* if len(batch) >= self.batch_size
BatchFull(b, n) == Len(b) >= n

\* The loop "for item in items" over one page; acc = [batch, yielded].
RECURSIVE ReadItems(_, _, _)
ReadItems(items, n, acc) ==
    IF items = <<>> THEN acc
    ELSE LET appended == acc.batch \o <<Head(items)>>
             rest(a) == ReadItems(Tail(items), n, a)
         IN Strict(rest, IF BatchFull(appended, n)
                         THEN [batch |-> <<>>, yielded |-> acc.yielded \o <<appended>>]
                         ELSE [batch |-> appended, yielded |-> acc.yielded])

InitReader ==
    /\ ControlIdle
    /\ ShredIdle
    /\ WriterIdle
    /\ ExportIdle
    /\ \E sizes \in SeqsUpTo(0..MaxPage, MaxPages) : pages = PagesOf(sizes, 1)
    /\ batch_size \in 1..MaxBatch
    /\ batch = <<>>
    /\ yielded = <<>>
    /\ consumed = <<>>
    /\ rpc = "pages"

\* One iteration of "for page in query_iterator.by_page()".
ReadPage ==
    /\ rpc = "pages"
    /\ pages # <<>>
    /\ LET out == ReadItems(Head(pages), batch_size, [batch |-> batch, yielded |-> yielded])
       IN /\ batch' = out.batch
          /\ yielded' = out.yielded
    /\ consumed' = consumed \o Head(pages)
    /\ pages' = Tail(pages)
    /\ UNCHANGED <<batch_size, rpc>>
    /\ UNCHANGED nonReaderVars

\* After the last page: "if batch: yield batch".
EndOfPages ==
    /\ rpc = "pages"
    /\ pages = <<>>
    /\ yielded' = IF batch # <<>> THEN yielded \o <<batch>> ELSE yielded
    /\ batch' = <<>>
    /\ rpc' = "done"
    /\ UNCHANGED <<pages, batch_size, consumed>>
    /\ UNCHANGED nonReaderVars

NextReader ==
    \/ ReadPage
    \/ EndOfPages

SpecReader == InitReader /\ [][NextReader]_vars

\* C10 (reader batching): every yielded batch is non-empty and has at most
\* batch_size documents; the yielded batches followed by the batch being filled
\* are the documents of the pages read so far, in order, none lost and none
\* twice; when the generator ends nothing is left over.
ReaderBatching ==
    /\ \A i \in 1..Len(yielded) : yielded[i] # <<>> /\ Len(yielded[i]) <= batch_size
    /\ Concat(yielded) \o batch = consumed
    /\ consumed = [i \in 1..Len(consumed) |-> i]
    /\ rpc = "done" => pages = <<>> /\ batch = <<>>

\* The generator has ended after yielding a full batch cut out of a larger
\* page and a final, shorter batch.
ReaderBatchingWitness ==
    /\ rpc = "done"
    /\ Len(yielded) >= 2
    /\ Len(yielded[1]) = batch_size
    /\ Len(yielded[Len(yielded)]) < batch_size
    /\ Len(consumed) > batch_size

-----------------------------------------------------------------------------
(* The reader over a list of partition values, with queries that fail to
   open and pages that fail to arrive (SpecStream).  self is the reader in
   its generators, world the server and the consumer of the batches. *)

MaxParts == 2       \* partition values of the export

\* The pages of one partition's query, by their sizes.
PageSizes == {<<>>, <<2>>, <<1, 2>>}

\* What can go wrong: the page (partition, page) fails to arrive, and the
\* queries of some partitions fail to open after the retries of the strategy.
NoFault == [pk |-> 0, page |-> 0]

Streams ==
    UNION {{[pages |-> pg, batch_size |-> n, fault |-> f, open_fails |-> o] :
               n \in 1..MaxBatch,
               f \in {NoFault} \cup UNION {{[pk |-> i, page |-> j] : j \in 1..Len(pg[i])} :
                                              i \in 1..MaxParts},
               o \in {{}, {1}, {MaxParts}}} :
           pg \in {[i \in 1..MaxParts |-> PagesOf(sz[i], 10 * i + 1)] :
                      sz \in [1..MaxParts -> PageSizes]}}

InitStream ==
    /\ ShredIdle
    /\ WriterIdle
    /\ ExportIdle
    /\ ReaderIdle
    /\ self = [pk_index |-> 1, page |-> 1, batch |-> <<>>]
    /\ world \in {[server |-> st, yielded |-> <<>>, fetches |-> 0, log |-> <<>>,
                   status |-> "running"] : st \in Streams}
    /\ clock = 0
    /\ sleeps = <<>>
    /\ cpc = "open"

\* stream_documents / _stream_partition: execute_with_retry(_execute_query)
\* returns the iterator of the next partition value.
ExecuteQuery ==
    /\ cpc = "open"
    /\ self.pk_index <= MaxParts
    /\ self.pk_index \notin world.server.open_fails
    /\ self' = [self EXCEPT !.page = 1, !.batch = <<>>]
    /\ cpc' = "pages"
    /\ UNCHANGED <<clock, sleeps, world>>
    /\ UNCHANGED nonControlVars

\* _stream_partition, lines 590-596: execute_with_retry raises, the failure
\* is logged and the generator of this partition returns.
QueryFails ==
    /\ cpc = "open"
    /\ self.pk_index <= MaxParts
    /\ self.pk_index \in world.server.open_fails
    /\ world' = [world EXCEPT !.log = @ \o <<[msg |-> "Failed to query partition",
                                              pk |-> self.pk_index]>>]
    /\ self' = [self EXCEPT !.pk_index = @ + 1]
    /\ UNCHANGED <<clock, sleeps, cpc>>
    /\ UNCHANGED nonControlVars

\* _process_query_results: one iteration of "for page in by_page()", the
\* batches it yields handed to the loop of the activity.
FetchPage ==
    /\ cpc = "pages"
    /\ self.page <= Len(world.server.pages[self.pk_index])
    /\ [pk |-> self.pk_index, page |-> self.page] # world.server.fault
    /\ LET out == ReadItems(world.server.pages[self.pk_index][self.page],
                            world.server.batch_size,
                            [batch |-> self.batch, yielded |-> <<>>])
       IN /\ self' = [self EXCEPT !.batch = out.batch, !.page = @ + 1]
          /\ world' = [world EXCEPT
                         !.yielded = @ \o [i \in 1..Len(out.yielded) |->
                                              [pk |-> self.pk_index, docs |-> out.yielded[i]]]]
    /\ UNCHANGED <<clock, sleeps, cpc>>
    /\ UNCHANGED nonControlVars

\* The page does not arrive: by_page() raises inside _process_query_results.
\* No generator catches it (the try of _stream_partition ends before its
\* "yield from"), so it reaches the "except Exception" of the activity (lines
\* 1536-1538), which logs it and returns the status "error".
PageFails ==
    /\ cpc = "pages"
    /\ [pk |-> self.pk_index, page |-> self.page] = world.server.fault
    /\ world' = [world EXCEPT !.fetches = @ + 1,
                              !.log = @ \o <<[msg |-> "Activity failed", pk |-> self.pk_index]>>,
                              !.status = "error"]
    /\ cpc' = "done"
    /\ UNCHANGED <<self, clock, sleeps>>
    /\ UNCHANGED nonControlVars

\* After the last page of the partition: "if batch: yield batch", and
\* stream_documents goes on to the next partition value.
EndOfPartition ==
    /\ cpc = "pages"
    /\ self.page > Len(world.server.pages[self.pk_index])
    /\ world' = [world EXCEPT
                   !.yielded = IF self.batch # <<>>
                               THEN @ \o <<[pk |-> self.pk_index, docs |-> self.batch]>>
                               ELSE @]
    /\ self' = [self EXCEPT !.batch = <<>>, !.pk_index = @ + 1]
    /\ cpc' = "open"
    /\ UNCHANGED <<clock, sleeps>>
    /\ UNCHANGED nonControlVars

\* The generator is exhausted: the activity returns "success".
EndOfStream ==
    /\ cpc = "open"
    /\ self.pk_index > MaxParts
    /\ world' = [world EXCEPT !.status = "success"]
    /\ cpc' = "done"
    /\ UNCHANGED <<self, clock, sleeps>>
    /\ UNCHANGED nonControlVars

NextStream ==
    \/ ExecuteQuery
    \/ QueryFails
    \/ FetchPage
    \/ PageFails
    \/ EndOfPartition
    \/ EndOfStream

SpecStream == InitStream /\ [][NextStream]_vars

\* The documents of partition k, and those yielded for it.
DocsOf(k) == Concat(world.server.pages[k])

YieldedOf(k) ==
    Concat([i \in 1..Len(SelectSeq(world.yielded, LAMBDA y : y.pk = k)) |->
               SelectSeq(world.yielded, LAMBDA y : y.pk = k)[i].docs])

\* C33 (mid-stream page failure): when fetching a page fails after the stream
\* of partition value v_i has started, the failure is not retried, it is
\* logged, only that partition's stream is aborted, the batches already
\* yielded stand, and the remaining partition values are still streamed.
MidStreamPageFailure ==
    (cpc = "done" /\ world.fetches > 0) =>
        LET i == world.server.fault.pk
        IN /\ world.fetches = 1
           /\ \E l \in 1..Len(world.log) : world.log[l].pk = i
           /\ \A k \in 1..(i - 1) : k \notin world.server.open_fails => YieldedOf(k) = DocsOf(k)
           /\ \A k \in (i + 1)..MaxParts :
                  k \notin world.server.open_fails => YieldedOf(k) = DocsOf(k)

\* What the reader does: the failed page ends the whole run with the status
\* "error"; the batches yielded before it stand, and no later partition value
\* is streamed.
PageFailureEndsRun ==
    (cpc = "done" /\ world.fetches > 0) =>
        LET i == world.server.fault.pk
        IN /\ world.fetches = 1
           /\ world.status = "error"
           /\ \A k \in 1..(i - 1) : k \notin world.server.open_fails => YieldedOf(k) = DocsOf(k)
           /\ \A k \in (i + 1)..MaxParts : YieldedOf(k) = <<>>

\* A query that fails to open skips its partition value alone.
QueryFailureSkipsPartition ==
    (cpc = "done" /\ world.status = "success") =>
        \A k \in 1..MaxParts :
            YieldedOf(k) = IF k \in world.server.open_fails THEN <<>> ELSE DocsOf(k)

-----------------------------------------------------------------------------
(* RateLimiter: TokenBucketRUManager under a loop of consume calls (SpecBucket) *)

MaxConsume == 4     \* consume calls of the loop
MaxCharge == 5      \* largest RU charge of a call
MaxIdle == 2        \* times the caller spends time between two calls

\* The clock counts 1/SECOND s and the tokens 1/SECOND RU, so that every wait
\* and every refill of the model is a whole number.
SECOND == 8

\* DEFAULT_RESERVE_PERCENT = 0.2, in hundredths.
DEFAULT_RESERVE_PERCENT == 20

\* Provisioned RU/s; int(throughput * 0.8) is 2, 4, 8.
Throughputs == {3, 6, 10}

\* TokenBucketRUManager.__init__
TokenBucketRUManager(throughput, now) ==
    LET max_rus_per_second == (throughput * (100 - DEFAULT_RESERVE_PERCENT)) \div 100
    IN [max_rus_per_second |-> max_rus_per_second,
        tokens |-> max_rus_per_second * SECOND,
        last_refill |-> now,
        total_consumed |-> 0,
        operations_count |-> 0]

Min(a, b) == IF a <= b THEN a ELSE b
Max(a, b) == IF a >= b THEN a ELSE b

\* A bucket refilled without the cap of min(max_rus_per_second, ...).
RefillUncapped(b, now) ==
    LET elapsed == now - b.last_refill
    IN IF elapsed > 0
       THEN [b EXCEPT !.tokens = b.tokens + elapsed * b.max_rus_per_second,
                      !.last_refill = now]
       ELSE b

\* TokenBucketRUManager._refill_tokens at time now
_refill_tokens(b, now) ==
    LET elapsed == now - b.last_refill
        refill_amount == elapsed * b.max_rus_per_second
    IN IF elapsed > 0
       THEN [b EXCEPT !.tokens = Min(b.max_rus_per_second * SECOND, b.tokens + refill_amount),
                      !.last_refill = now]
       ELSE b

\* time.sleep(wait_time) returns after at least wait_time: the ticks by which
\* a sleep may overrun.
Oversleeps == {0, 1}

\* A limiter that never blocks the caller.
ConsumeWithoutSleep(b, now, ru_charge, late) ==
    LET b1 == _refill_tokens(b, now)
    IN [bucket |-> [b1 EXCEPT !.tokens = @ - ru_charge * SECOND,
                              !.total_consumed = @ + ru_charge,
                              !.operations_count = @ + 1],
        slept |-> <<>>, now |-> now]

\* TokenBucketRUManager.consume: the bucket after the call, the sleep it asked
\* for and the time at which it returns (time.sleep advances the clock by the
\* wait asked for and late ticks more).
consume(b, now, ru_charge, late) ==
    LET b1 == _refill_tokens(b, now)
        deficit == ru_charge * SECOND - b1.tokens
        wait_time == deficit \div b1.max_rus_per_second
        blocked == ru_charge * SECOND > b1.tokens
        b2 == IF blocked THEN _refill_tokens(b1, now + wait_time + late) ELSE b1
    IN [bucket |-> [b2 EXCEPT !.tokens = @ - ru_charge * SECOND,
                              !.total_consumed = @ + ru_charge,
                              !.operations_count = @ + 1],
        slept |-> IF blocked THEN <<wait_time>> ELSE <<>>,
        now |-> IF blocked THEN now + wait_time + late ELSE now]

InitBucket ==
    /\ ShredIdle
    /\ WriterIdle
    /\ ExportIdle
    /\ ReaderIdle
    /\ \E throughput \in Throughputs : self = TokenBucketRUManager(throughput, 0)
    /\ clock = 0
    /\ sleeps = <<>>
    /\ \E c \in 0..MaxCharge : world = [ru_charge |-> c, idle |-> 0]
    /\ cpc = "loop"

\* One call self.ru_manager.consume(ru_charge) of the loop.
Consume ==
    /\ cpc = "loop"
    /\ self.operations_count < MaxConsume
    /\ \E late \in Oversleeps :
           LET out == consume(self, clock, world.ru_charge, late)
           IN /\ self' = out.bucket
              /\ clock' = out.now
              /\ sleeps' = sleeps \o out.slept
    /\ UNCHANGED <<world, cpc>>
    /\ UNCHANGED nonControlVars

\* Between two calls the caller spends time on something else (fetching a
\* page, writing a file).
Elapse ==
    /\ cpc = "loop"
    /\ world.idle < MaxIdle
    /\ \E d \in {1, SECOND} : clock' = clock + d
    /\ world' = [world EXCEPT !.idle = @ + 1]
    /\ UNCHANGED <<self, sleeps, cpc>>
    /\ UNCHANGED nonControlVars

SpecBucket == InitBucket /\ [][Consume \/ Elapse]_vars

\* C12 (token bucket rate): after M calls consume(c) on a fresh bucket the
\* time elapsed is at least (M*c - capacity)/capacity seconds, where capacity
\* = floor(provisioned * (1 - reserve)); sleep advances the clock by the wait
\* asked for, or more.
TokenBucketRate ==
    cpc = "loop" =>
        clock * self.max_rus_per_second
            >= (self.operations_count * world.ru_charge - self.max_rus_per_second) * SECOND

\* The loop has blocked at least twice and no time was spent outside sleep.
TokenBucketRateWitness ==
    /\ cpc = "loop"
    /\ self.operations_count = MaxConsume
    /\ Len(sleeps) >= 2
    /\ world.idle = 0
    /\ clock > 0

\* C38 (token bucket state bounds): in every reachable state of the limiter
\* tokens <= capacity; after consume(cost) with cost <= capacity, the sleep
\* advancing the clock by at least the wait asked for, tokens >= 0; and each
\* consume adds exactly cost to total_consumed and 1 to operations_count.
TokenBucketBounds ==
    /\ [](cpc = "loop" =>
            /\ self.tokens <= self.max_rus_per_second * SECOND
            /\ (self.operations_count > 0 /\ world.ru_charge <= self.max_rus_per_second)
                   => self.tokens >= 0)
    /\ [][self' # self =>
              /\ self'.total_consumed = self.total_consumed + world.ru_charge
              /\ self'.operations_count = self.operations_count + 1]_vars

\* Calls of a cost within the capacity have blocked at least twice, time
\* passed between calls, and the bucket is empty after the last call.
TokenBucketBoundsWitness ==
    /\ cpc = "loop"
    /\ self.operations_count = MaxConsume
    /\ world.ru_charge > 0
    /\ world.ru_charge <= self.max_rus_per_second
    /\ Len(sleeps) >= 2
    /\ world.idle > 0
    /\ self.tokens = 0
    /\ \E i \in 1..Len(sleeps) : sleeps[i] > 0

-----------------------------------------------------------------------------
(* RetryPolicy: CosmosRetryStrategy.execute_with_retry (SpecRetry) *)

\* Times of the retry strategy are in milliseconds: DEFAULT_BASE_DELAY = 0.1 s,
\* DEFAULT_MAX_DELAY = 60 s.
DEFAULT_MAX_RETRIES == 5
DEFAULT_BASE_DELAY == 100
DEFAULT_MAX_DELAY == 60000

RETRYABLE_ERROR_CODES ==
    {"429", "408", "503", "RequestRateTooLarge", "RequestTimeout", "ServiceUnavailable"}

\* The strategies: the one the reader builds, and one whose max_delay cuts the
\* backoff of its third attempt.
Strategies ==
    {[max_retries |-> DEFAULT_MAX_RETRIES, base_delay |-> DEFAULT_BASE_DELAY,
      max_delay |-> DEFAULT_MAX_DELAY],
     [max_retries |-> 3, base_delay |-> DEFAULT_BASE_DELAY, max_delay |-> 300]}

\* An exception of the operation: the codes and names its message contains and
\* the x-ms-retry-after-ms header it carries (0: it has none).
CosmosError(msg, retry_after_ms) == [msg |-> msg, retry_after_ms |-> retry_after_ms]

Errors ==
    {CosmosError({"429"}, 0), CosmosError({"429"}, 2000),
     CosmosError({"RequestTimeout"}, 0), CosmosError({"503"}, 2000),
     CosmosError({"404"}, 0)}

RECURSIVE Pow(_, _)
Pow(b, n) == IF n = 0 THEN 1 ELSE b * Pow(b, n - 1)

\* A strategy whose backoff is not capped.
BackoffUncapped(strategy, attempt) == strategy.base_delay * Pow(2, attempt)

\* CosmosRetryStrategy._calculate_backoff
_calculate_backoff(strategy, attempt) ==
    Min(strategy.base_delay * Pow(2, attempt), strategy.max_delay)

\* CosmosRetryStrategy._classify_error
_classify_error(error_msg) ==
    IF "429" \in error_msg \/ "RequestRateTooLarge" \in error_msg THEN "429_RateLimited"
    ELSE IF "408" \in error_msg \/ "RequestTimeout" \in error_msg THEN "408_Timeout"
    ELSE IF "503" \in error_msg \/ "ServiceUnavailable" \in error_msg
    THEN "503_ServiceUnavailable"
    ELSE "Other"

\* CosmosRetryStrategy._extract_retry_after, in milliseconds; 0 is None.
_extract_retry_after(exception) == exception.retry_after_ms

\* A strategy that also sleeps after its last attempt.
SleepsAfterLastAttempt(attempt, max_retries) == attempt <= max_retries

\* if attempt < self.max_retries
MayRetry(attempt, max_retries) == attempt < max_retries

\* jitter = random.uniform(0, 0.1 * wait_time): the two ends of the interval.
Jitters(wait_time) == {0, wait_time \div 10}

InitRetry ==
    /\ ShredIdle
    /\ WriterIdle
    /\ ExportIdle
    /\ ReaderIdle
    /\ \E strategy \in Strategies :
          self = [max_retries |-> strategy.max_retries, base_delay |-> strategy.base_delay,
                  max_delay |-> strategy.max_delay, retry_count_by_error |-> <<>>]
    /\ clock = 0
    /\ sleeps = <<>>
    /\ world = [attempt |-> 0, invocations |-> 0, errors |-> <<>>]
    /\ cpc = "attempt"

\* One iteration of "for attempt in range(self.max_retries + 1)": the operation
\* returns, or raises e.
Attempt ==
    /\ cpc = "attempt"
    /\ world.attempt <= self.max_retries
    /\ \/ /\ cpc' = "returned"
          /\ world' = [world EXCEPT !.invocations = @ + 1]
          /\ UNCHANGED <<self, clock, sleeps>>
       \/ \E e \in Errors :
            LET error_msg == e.msg
                is_retryable == error_msg \cap RETRYABLE_ERROR_CODES # {}
                error_type == _classify_error(error_msg)
                counted == Put(self.retry_count_by_error, error_type,
                               IF error_type \in DOMAIN self.retry_count_by_error
                               THEN self.retry_count_by_error[error_type] + 1 ELSE 1)
                retry_after == IF "429" \in error_msg \/ "RequestRateTooLarge" \in error_msg
                               THEN _extract_retry_after(e) ELSE 0
                wait_time == IF retry_after # 0 THEN retry_after
                             ELSE _calculate_backoff(self, world.attempt)
                met == [world EXCEPT !.invocations = @ + 1, !.errors = Append(@, e)]
            IN IF is_retryable /\ MayRetry(world.attempt, self.max_retries)
               THEN \E jitter \in Jitters(wait_time) :
                      /\ self' = [self EXCEPT !.retry_count_by_error = counted]
                      /\ sleeps' = Append(sleeps, [wait_time |-> wait_time, jitter |-> jitter])
                      /\ clock' = clock + wait_time + jitter
                      /\ world' = [met EXCEPT !.attempt = @ + 1]
                      /\ cpc' = cpc
               ELSE /\ self' = IF is_retryable
                               THEN [self EXCEPT !.retry_count_by_error = counted] ELSE self
                    /\ world' = met
                    /\ cpc' = "raised"
                    /\ UNCHANGED <<clock, sleeps>>
    /\ UNCHANGED nonControlVars

SpecRetry == InitRetry /\ [][Attempt]_vars

\* Claims about the retry strategy (checked under SpecRetry)

RateLimited(e) == "429" \in e.msg \/ "RequestRateTooLarge" \in e.msg

\* The time slept in the first n sleeps, jitter included.
RECURSIVE Slept(_)
Slept(n) == IF n = 0 THEN 0 ELSE Slept(n - 1) + sleeps[n].wait_time + sleeps[n].jitter

\* sum over i in 0..k-1 of min(base * 2^i, max)
RECURSIVE BackoffSum(_)
BackoffSum(k) ==
    IF k = 0 THEN 0
    ELSE BackoffSum(k - 1) + Min(self.base_delay * Pow(2, k - 1), self.max_delay)

OnlyRateLimited == \A i \in 1..Len(world.errors) : RateLimited(world.errors[i])

Retryable(e) == e.msg \cap {"429", "408", "503", "RequestRateTooLarge", "RequestTimeout",
                            "ServiceUnavailable"} # {}

RetryableCount == Cardinality({i \in 1..Len(world.errors) : Retryable(world.errors[i])})

\* The sum of the retry counters.
RECURSIVE CounterSum(_)
CounterSum(keys) ==
    IF keys = {} THEN 0
    ELSE LET k == CHOOSE x \in keys : TRUE
         IN self.retry_count_by_error[k] + CounterSum(keys \ {k})

\* C14 (retry cap and terminal errors): the operation is invoked at most
\* max_retries + 1 times; an error matching no retryable code is raised at
\* once, with no sleep and no retry counter changed; a retryable error is
\* raised only on the last allowed attempt, without a further sleep.
RetryCap ==
    LET n == Len(world.errors)
    IN /\ world.invocations <= self.max_retries + 1
       /\ world.invocations = self.max_retries + 1 => cpc \in {"returned", "raised"}
       /\ \A i \in 1..n : ~Retryable(world.errors[i]) => (i = n /\ cpc = "raised")
       /\ CounterSum(DOMAIN self.retry_count_by_error) = RetryableCount
       /\ cpc = "raised" =>
              /\ Len(sleeps) = n - 1
              /\ Retryable(world.errors[n]) => n = self.max_retries + 1
       /\ cpc # "raised" => Len(sleeps) = n

\* A run that retried a retryable error, then met a terminal one.
RetryCapWitness ==
    /\ cpc = "raised"
    /\ Len(world.errors) = 2
    /\ Retryable(world.errors[1])
    /\ ~Retryable(world.errors[2])

\* The reader's half of the server hint override: a sleep after a RateLimited
\* error that carries a hint of h ms waits h ms before jitter.
HintOverrideOfReader ==
    \A i \in 1..Len(sleeps) :
        (RateLimited(world.errors[i]) /\ world.errors[i].retry_after_ms # 0) =>
            sleeps[i].wait_time = world.errors[i].retry_after_ms

-----------------------------------------------------------------------------
(* DocStoreWriter: upsert_item_with_retry of the import (SpecUpsert) *)

\* Times of the upsert retry are in milliseconds: RETRY_BASE_DELAY = 1 s.
RETRY_MAX_ATTEMPTS == 10
RETRY_BASE_DELAY == 1000
BACKOFF_MULTIPLIER == 2
AUTOSCALE_SCALE_UP_WAIT_MS == 100

\* A CosmosHttpResponseError: its status code and its x-ms-retry-after-ms
\* header (0: it has none).
HttpErrors ==
    {[status_code |-> 429, retry_after_ms |-> 0],
     [status_code |-> 429, retry_after_ms |-> 2000],
     [status_code |-> 408, retry_after_ms |-> 0],
     [status_code |-> 503, retry_after_ms |-> 0],
     [status_code |-> 500, retry_after_ms |-> 0],
     [status_code |-> 404, retry_after_ms |-> 0]}

\* _calculate_throttle_wait_time: the wait before jitter and the largest
\* jitter (the function returns their sum, the jitter drawn from 0 up to it).
\* 1.5 ** attempt is rounded down to the millisecond.
_calculate_throttle_wait_time(error, attempt, is_autoscale) ==
    LET retry_after_ms == error.retry_after_ms
    IN IF is_autoscale
       THEN LET wait_time == IF retry_after_ms # 0
                             THEN retry_after_ms \div 2
                             ELSE Max(AUTOSCALE_SCALE_UP_WAIT_MS,
                                      (RETRY_BASE_DELAY * Pow(3, attempt)) \div Pow(2, attempt))
            IN [wait_time |-> wait_time, max_jitter |-> wait_time \div 20]
       ELSE LET wait_time == IF retry_after_ms # 0
                             THEN retry_after_ms
                             ELSE RETRY_BASE_DELAY * Pow(BACKOFF_MULTIPLIER, attempt)
            IN [wait_time |-> wait_time, max_jitter |-> wait_time \div 10]

\* A writer that retries whatever the status of the error.
RetriedAlways(status_code) == TRUE

\* "e.status_code == 429" and "e.status_code in [408, 503, 500]": the errors
\* after which the loop sleeps and continues while attempts are left.
Retried(status_code) == status_code \in {429, 408, 503, 500}

InitUpsert ==
    /\ ShredIdle
    /\ WriterIdle
    /\ ExportIdle
    /\ ReaderIdle
    /\ \E is_autoscale \in BOOLEAN : self = [attempt |-> 0, is_autoscale |-> is_autoscale]
    /\ clock = 0
    /\ sleeps = <<>>
    /\ world = [report_success |-> 0, report_throttle |-> 0,
                calls |-> 0, throttled |-> 0, last |-> "none"]
    /\ cpc = "attempt"

\* One iteration of "for attempt in range(RETRY_MAX_ATTEMPTS)": the upsert
\* succeeds, raises the CosmosHttpResponseError e, or raises another
\* exception.  sleeps keeps the last sleep of the call; the call reads no
\* clock.  The history in world: the upsert_item calls made, the 429 answers
\* among them, and the last answer.
UpsertAttempt ==
    /\ cpc = "attempt"
    /\ self.attempt < RETRY_MAX_ATTEMPTS
    /\ \/ /\ world' = [world EXCEPT !.report_success = @ + 1,
                                     !.calls = @ + 1, !.last = "ok"]
          /\ cpc' = "succeeded"
          /\ UNCHANGED <<self, sleeps>>
       \/ \E e \in HttpErrors :
            LET throttled == e.status_code = 429
                wait == IF throttled
                        THEN _calculate_throttle_wait_time(e, self.attempt, self.is_autoscale)
                        ELSE [wait_time |-> RETRY_BASE_DELAY * Pow(BACKOFF_MULTIPLIER, self.attempt),
                              max_jitter |-> 0]
            IN /\ world' = [world EXCEPT
                              !.report_throttle = IF throttled THEN @ + 1 ELSE @,
                              !.calls = @ + 1,
                              !.throttled = IF e.status_code = 429 THEN @ + 1 ELSE @,
                              !.last = IF e.status_code = 429 THEN "throttle"
                                       ELSE IF e.status_code \in {408, 503, 500} THEN "transient"
                                       ELSE "other"]
               /\ IF Retried(e.status_code)
                     /\ self.attempt < RETRY_MAX_ATTEMPTS - 1
                  THEN \E jitter \in {0, wait.max_jitter} :
                         /\ sleeps' = <<[error |-> e, attempt |-> self.attempt,
                                         wait_time |-> wait.wait_time, jitter |-> jitter]>>
                         /\ self' = [self EXCEPT !.attempt = @ + 1]
                         /\ cpc' = cpc
                  ELSE /\ cpc' = "failed"
                       /\ UNCHANGED <<self, sleeps>>
       \/ /\ world' = [world EXCEPT !.calls = @ + 1, !.last = "exception"]
          /\ cpc' = "failed"
          /\ UNCHANGED <<self, sleeps>>
    /\ UNCHANGED clock
    /\ UNCHANGED nonControlVars

SpecUpsert == InitUpsert /\ [][UpsertAttempt]_vars

\* C15 (server hint override): whenever a RateLimited (429) error carries a
\* server retry hint of h milliseconds, the wait before jitter is exactly
\* h/1000 seconds instead of the exponential backoff; here for the writer's
\* upsert retry, under autoscale and under manual capacity.
ServerHintOverride ==
    \A i \in 1..Len(sleeps) :
        (sleeps[i].error.status_code = 429 /\ sleeps[i].error.retry_after_ms # 0) =>
            sleeps[i].wait_time = sleeps[i].error.retry_after_ms

\* The writer's half under manual capacity alone.
HintOverrideOfManualWriter ==
    ~self.is_autoscale => ServerHintOverride

\* C34 (upsert retry protocol): the upsert task of a document ends after at
\* most 10 upsert_item calls; every 429 answer is reported once to
\* report_throttle and retried after a wait; 408, 503 and 500 are retried
\* after base * 2^attempt; any other HTTP status or exception ends the task
\* after that single call with a failure; and report_success is called once
\* for a document that succeeded and never for one that failed.
UpsertProtocol ==
    world.calls > 0 =>
        /\ world.calls <= RETRY_MAX_ATTEMPTS
        /\ world.report_throttle = world.throttled
        /\ world.report_success = IF cpc = "succeeded" THEN 1 ELSE 0
        /\ (cpc = "succeeded") = (world.last = "ok")
        /\ world.last \in {"other", "exception"} => cpc = "failed"
        /\ cpc = "failed" =>
               \/ world.last \in {"other", "exception"}
               \/ world.last \in {"throttle", "transient"} /\ world.calls = RETRY_MAX_ATTEMPTS
        /\ cpc = "attempt" =>
               /\ world.last \in {"throttle", "transient"}
               /\ self.attempt = world.calls
               /\ Len(sleeps) = 1
               /\ sleeps[1].attempt = world.calls - 1
               /\ (sleeps[1].error.status_code = 429) = (world.last = "throttle")
               /\ world.last = "transient" =>
                      /\ sleeps[1].wait_time
                             = RETRY_BASE_DELAY * Pow(BACKOFF_MULTIPLIER, world.calls - 1)
                      /\ sleeps[1].jitter = 0

\* A task that was throttled and hit by transient errors succeeds at its
\* tenth call.
UpsertProtocolWitness ==
    /\ cpc = "succeeded"
    /\ world.calls = RETRY_MAX_ATTEMPTS
    /\ world.throttled \in 1..(RETRY_MAX_ATTEMPTS - 2)
    /\ world.report_success = 1
    /\ sleeps[1].error.status_code = 500

\* A task ends in failure at its tenth call, every answer a 429.
UpsertProtocolExhausted ==
    /\ cpc = "failed"
    /\ world.throttled = RETRY_MAX_ATTEMPTS

-----------------------------------------------------------------------------
(* ThrottleController: calculate_optimal_concurrency and AdaptiveThrottleManager
   of the import (SpecThrottle) *)

MaxOps == 201       \* longest run of successes without a throttle
MaxThrottles == 10  \* throttles reported to one manager
MaxCharged == 1     \* successes that report an RU charge

\* The safety margins 0.95 and 0.75, in hundredths.
AUTOSCALE_RU_SAFETY_MARGIN == 95
MANUAL_RU_SAFETY_MARGIN == 75
AUTOSCALE_MIN_THROTTLES_BEFORE_BACKOFF == 5
MANUAL_MIN_THROTTLES_BEFORE_BACKOFF == 2
MIN_CONCURRENT_OPERATIONS == 5
MAX_CONCURRENT_OPERATIONS_ABSOLUTE == 500
ESTIMATED_RU_PER_UPSERT == 10
ESTIMATED_RU_PER_KB == 5

\* What get_throughput() gives: an autoscale or a manual offer at container
\* level or at database level (shared), or no offer at all.
Offers ==
    {[found |-> TRUE, is_shared |-> FALSE, offerAutopilotSettings |-> TRUE, ru |-> 4000],
     [found |-> TRUE, is_shared |-> TRUE, offerAutopilotSettings |-> TRUE, ru |-> 1000],
     [found |-> TRUE, is_shared |-> FALSE, offerAutopilotSettings |-> FALSE, ru |-> 400],
     [found |-> FALSE, is_shared |-> FALSE, offerAutopilotSettings |-> FALSE, ru |-> 0]}

\* discover_container_configuration: the defaults of lines 468-477 updated with
\* the result of _get_throughput_configuration / _parse_offer_properties.
discover_container_configuration(offer) ==
    LET defaults == [provisioned_rus |-> 0, min_rus |-> 0, max_rus |-> 0,
                     throughput_type |-> "unknown", is_autoscale |-> FALSE,
                     is_serverless |-> FALSE, uses_shared_throughput |-> FALSE]
    IN IF ~offer.found
       THEN [defaults EXCEPT !.is_serverless = TRUE, !.throughput_type = "serverless",
                             !.provisioned_rus = 1000, !.min_rus = 100, !.max_rus = 5000]
       ELSE IF offer.offerAutopilotSettings
       THEN [defaults EXCEPT !.uses_shared_throughput = offer.is_shared,
                             !.is_autoscale = TRUE,
                             !.throughput_type = IF offer.is_shared THEN "autoscale_shared"
                                                 ELSE "autoscale",
                             !.max_rus = offer.ru, !.min_rus = offer.ru \div 10,
                             !.provisioned_rus = offer.ru]
       ELSE [defaults EXCEPT !.uses_shared_throughput = offer.is_shared,
                             !.throughput_type = IF offer.is_shared THEN "manual_shared"
                                                 ELSE "manual",
                             !.provisioned_rus = offer.ru, !.min_rus = 400,
                             !.max_rus = offer.ru]

\* calculate_optimal_concurrency; safety_margin and available_rus_per_second
\* are in hundredths.
calculate_optimal_concurrency(config, total_docs, avg_doc_size_kb) ==
    LET provisioned_rus == config.provisioned_rus
        is_autoscale == config.is_autoscale
        is_serverless == config.is_serverless
        estimated_ru_per_doc == ESTIMATED_RU_PER_UPSERT + avg_doc_size_kb * ESTIMATED_RU_PER_KB
        safety_margin == IF is_autoscale THEN AUTOSCALE_RU_SAFETY_MARGIN
                         ELSE MANUAL_RU_SAFETY_MARGIN
        available_rus == provisioned_rus * safety_margin
        concurrent == IF is_serverless
                      THEN (available_rus * 2) \div (100 * estimated_ru_per_doc)
                      ELSE IF is_autoscale
                      THEN (available_rus * 3) \div (200 * estimated_ru_per_doc)
                      ELSE available_rus \div (100 * estimated_ru_per_doc)
        max_concurrent == Max(Min(concurrent, MAX_CONCURRENT_OPERATIONS_ABSOLUTE),
                              MIN_CONCURRENT_OPERATIONS)
        initial_batch == Max(IF is_serverless \/ is_autoscale
                             THEN Min(100, total_docs \div 10)
                             ELSE Min(30, total_docs \div 30),
                             MIN_CONCURRENT_OPERATIONS)
    IN [max_concurrent_operations |-> max_concurrent,
        initial_batch_size |-> initial_batch,
        min_batch_size |-> Max(5, initial_batch \div 10),
        max_batch_size |-> IF is_autoscale THEN Min(300, initial_batch * 5)
                           ELSE Min(200, initial_batch * 4),
        estimated_ru_per_doc |-> estimated_ru_per_doc,
        available_rus_per_second |-> available_rus,
        is_autoscale |-> is_autoscale]

\* AdaptiveThrottleManager.__init__
AdaptiveThrottleManager(concurrency_config) ==
    [is_autoscale |-> concurrency_config.is_autoscale,
     current_batch_size |-> concurrency_config.initial_batch_size,
     min_batch_size |-> concurrency_config.min_batch_size,
     max_batch_size |-> concurrency_config.max_batch_size,
     max_concurrent |-> concurrency_config.max_concurrent_operations,
     consecutive_successes |-> 0,
     consecutive_throttles |-> 0,
     total_throttles |-> 0,
     total_rus_consumed |-> 0,
     total_operations |-> 0,
     avg_ru_per_operation |-> concurrency_config.estimated_ru_per_doc,
     autoscale_warmup_period |-> TRUE,
     operations_since_last_throttle |-> 0,
     autoscale_max_reached |-> FALSE,
     high_throttle_count_at_max |-> 0,
     throttle_tolerance |-> IF concurrency_config.is_autoscale
                            THEN AUTOSCALE_MIN_THROTTLES_BEFORE_BACKOFF
                            ELSE MANUAL_MIN_THROTTLES_BEFORE_BACKOFF]

\* A manager that multiplies the batch size without looking at max_batch_size.
ScaleUpUnclamped(m) ==
    IF m.consecutive_successes >= 10
    THEN [m EXCEPT !.current_batch_size = (m.current_batch_size * 3) \div 2,
                   !.consecutive_successes = 0]
    ELSE m

\* AdaptiveThrottleManager._scale_up_if_needed; int(x * 1.5) is (3x) div 2,
\* int(x * 1.1) is (11x) div 10, int(x * 1.2) is (12x) div 10.
_scale_up_if_needed(m) ==
    IF m.is_autoscale
    THEN LET scaled ==
                 IF m.autoscale_warmup_period
                 THEN IF m.consecutive_successes >= 20
                         /\ m.current_batch_size < m.max_batch_size
                      THEN [m EXCEPT !.current_batch_size =
                                         Min((m.current_batch_size * 3) \div 2, m.max_batch_size),
                                     !.consecutive_successes = 0]
                      ELSE m
                 ELSE IF m.consecutive_successes >= 30
                         /\ m.current_batch_size < m.max_batch_size
                      THEN [m EXCEPT !.current_batch_size =
                                         Min((m.current_batch_size * 11) \div 10, m.max_batch_size),
                                     !.consecutive_successes = 0]
                      ELSE m
         IN [scaled EXCEPT
               !.autoscale_warmup_period =
                   IF m.operations_since_last_throttle > 100 THEN FALSE ELSE @,
               !.autoscale_max_reached =
                   IF m.operations_since_last_throttle > 200 THEN TRUE ELSE @]
    ELSE IF m.consecutive_successes >= 10 /\ m.current_batch_size < m.max_batch_size
    THEN [m EXCEPT !.current_batch_size =
                       Min((m.current_batch_size * 12) \div 10, m.max_batch_size),
                   !.consecutive_successes = 0]
    ELSE m

\* A manager that cuts the batch size at every throttle.
ScaleDownAtEveryThrottle(m) ==
    [m EXCEPT !.current_batch_size = Max(m.current_batch_size \div 2, m.min_batch_size),
              !.consecutive_throttles = 0]

\* AdaptiveThrottleManager._scale_down_if_needed
_scale_down_if_needed(m) ==
    IF m.is_autoscale
    THEN LET counted == IF m.autoscale_max_reached
                        THEN [m EXCEPT !.high_throttle_count_at_max = @ + 1] ELSE m
             cut == IF counted.autoscale_max_reached /\ counted.high_throttle_count_at_max > 3
                    THEN counted.current_batch_size \div 2
                    ELSE IF counted.autoscale_warmup_period
                    THEN (counted.current_batch_size * 8) \div 10
                    ELSE (counted.current_batch_size * 6) \div 10
         IN IF counted.consecutive_throttles >= counted.throttle_tolerance
            THEN [counted EXCEPT !.current_batch_size = Max(cut, counted.min_batch_size),
                                 !.consecutive_throttles = 0]
            ELSE counted
    ELSE IF m.consecutive_throttles >= m.throttle_tolerance
    THEN [m EXCEPT !.current_batch_size = Max(m.current_batch_size \div 2, m.min_batch_size),
                   !.consecutive_throttles = 0]
    ELSE m

\* AdaptiveThrottleManager.report_success
report_success(m, ru_charge) ==
    LET counted == [m EXCEPT !.consecutive_successes = @ + 1,
                             !.consecutive_throttles = 0,
                             !.operations_since_last_throttle = @ + 1]
        charged == IF ru_charge > 0
                   THEN [counted EXCEPT
                           !.total_rus_consumed = @ + ru_charge,
                           !.total_operations = @ + 1,
                           !.avg_ru_per_operation =
                               (m.total_rus_consumed + ru_charge) \div (m.total_operations + 1)]
                   ELSE counted
    IN _scale_up_if_needed(charged)

\* AdaptiveThrottleManager.report_throttle
report_throttle(m) ==
    _scale_down_if_needed([m EXCEPT !.consecutive_throttles = @ + 1,
                                    !.total_throttles = @ + 1,
                                    !.consecutive_successes = 0,
                                    !.operations_since_last_throttle = 0])

\* Documents to import, and their average size in KB.
TotalDocs == {0, 300, 2000}

InitThrottle ==
    /\ ShredIdle
    /\ WriterIdle
    /\ ExportIdle
    /\ ReaderIdle
    /\ \E offer \in Offers, total_docs \in TotalDocs :
          LET config == discover_container_configuration(offer)
              concurrency_config == calculate_optimal_concurrency(config, total_docs, 1)
          IN /\ self = AdaptiveThrottleManager(concurrency_config)
             /\ world = [config |-> config, concurrency_config |-> concurrency_config,
                         last |-> "none", successes |-> 0, throttles |-> 0, ops |-> 0,
                         saturated |-> FALSE, warm |-> TRUE]
    /\ clock = 0
    /\ sleeps = <<>>
    /\ cpc = "upserting"

\* A task of batch_upsert_documents reports a success.  The history in world:
\* successes since the last throttle or change of the batch size, operations
\* since the last throttle, and whether more than 200 were ever seen.
ReportSuccess ==
    /\ cpc = "upserting"
    /\ self.operations_since_last_throttle < MaxOps
    /\ \E ru_charge \in {0, 7} :
          /\ ru_charge > 0 => self.total_operations < MaxCharged
          /\ self' = report_success(self, ru_charge)
    /\ world' = [world EXCEPT
                   !.last = "success",
                   !.successes = IF self'.current_batch_size # self.current_batch_size
                                 THEN 0 ELSE @ + 1,
                   !.throttles = 0,
                   !.ops = @ + 1,
                   !.saturated = @ \/ world.ops + 1 > 200]
    /\ UNCHANGED <<clock, sleeps, cpc>>
    /\ UNCHANGED nonControlVars

\* A task reports a throttle (HTTP 429).  The history in world: the throttles
\* in a row since the last success, and whether the row began in the warm-up
\* window (at most 100 operations since the throttle before it).
ReportThrottle ==
    /\ cpc = "upserting"
    /\ self.total_throttles < MaxThrottles
    /\ self' = report_throttle(self)
    /\ world' = [world EXCEPT
                   !.last = "throttle",
                   !.successes = 0,
                   !.throttles = @ + 1,
                   !.ops = 0,
                   !.warm = IF world.throttles = 0 THEN world.ops <= 100 ELSE @]
    /\ UNCHANGED <<clock, sleeps, cpc>>
    /\ UNCHANGED nonControlVars

SpecThrottle == InitThrottle /\ [][ReportSuccess \/ ReportThrottle]_vars

\* C16 (batch bounds): for every configuration the concurrency calculation
\* produces and after any interleaving of report_success and report_throttle,
\* min_batch_size <= current_batch_size <= max_batch_size, in both policies.
BatchBounds ==
    cpc = "upserting" =>
        /\ self.min_batch_size <= self.current_batch_size
        /\ self.current_batch_size <= self.max_batch_size

\* A manager that has grown to max_batch_size and was then cut to
\* min_batch_size.
BatchBoundsWitness ==
    /\ cpc = "upserting"
    /\ self.current_batch_size = self.min_batch_size
    /\ self.current_batch_size < world.concurrency_config.initial_batch_size
    /\ self.total_throttles >= 4

Manual == world.config.throughput_type \in {"manual", "manual_shared"}

\* C17 (conservative policy): under manual capacity current_batch_size changes
\* only (a) on the 10th consecutive success since the last change or throttle,
\* to min(floor(1.2 * current), max), with the success counter reset, and (b)
\* on every 2nd consecutive throttle, to max(floor(0.5 * current), min), with
\* the throttle counter reset; no other call changes it.
ConservativePolicy ==
    [][(cpc = "upserting" /\ Manual) =>
          LET cur == self.current_batch_size
              new == self'.current_batch_size
              tenth == world'.last = "success" /\ world.successes = 9
              second == world'.last = "throttle" /\ (world.throttles + 1) % 2 = 0
          IN /\ new # cur => (tenth \/ second)
             /\ tenth => /\ new = Min((cur * 12) \div 10, self.max_batch_size)
                         /\ new # cur => self'.consecutive_successes = 0
             /\ second => /\ new = Max(cur \div 2, self.min_batch_size)
                          /\ self'.consecutive_throttles = 0]_vars

\* Under manual capacity the batch size has grown and was then cut by a second
\* consecutive throttle, to a size still above the initial one.
ConservativePolicyWitness ==
    /\ cpc = "upserting"
    /\ Manual
    /\ world.last = "throttle"
    /\ self.total_throttles = 2
    /\ self.consecutive_throttles = 0
    /\ self.current_batch_size > world.concurrency_config.initial_batch_size

\* C18 (aggressive warm-up window): under the aggressive policy the controller
\* is in warm-up exactly while at most 100 operations have succeeded since the
\* last throttle (or since the start); a success in warm-up that is the 20th
\* since the last change or throttle scales up by x1.5, one after warm-up that
\* is the 30th by x1.1, no other success changes the batch size; so a throttle
\* re-opens the window.
WarmupWindow ==
    /\ []((cpc = "upserting" /\ self.is_autoscale) =>
              (self.autoscale_warmup_period <=> world.ops <= 100))
    /\ [][(cpc = "upserting" /\ self.is_autoscale /\ world'.last = "success") =>
             LET cur == self.current_batch_size
                 warmup == world.ops + 1 <= 100
             IN self'.current_batch_size =
                    IF warmup /\ world.successes + 1 = 20
                    THEN Min((cur * 3) \div 2, self.max_batch_size)
                    ELSE IF ~warmup /\ world.successes + 1 = 30
                    THEN Min((cur * 11) \div 10, self.max_batch_size)
                    ELSE cur]_vars

\* The cut the aggressive policy owes at a 5th consecutive throttle.
AggressiveCut(cur, saturated, warmup) ==
    Max((cur * (IF saturated THEN 5 ELSE IF warmup THEN 8 ELSE 6)) \div 10, self.min_batch_size)

\* C19 (aggressive throttle tolerance): under the aggressive policy
\* current_batch_size is reduced only by a report_throttle that is a 5th
\* consecutive throttle with no success in between; the cut is x0.5 when the
\* controller was saturated (more than 200 operations without throttle), else
\* x0.8 when the throttles began in warm-up and x0.6 when they began after it,
\* floor-rounded and clamped to min_batch_size; then the throttle counter is 0.
ThrottleTolerance ==
    [][(cpc = "upserting" /\ self.is_autoscale) =>
          LET cur == self.current_batch_size
              new == self'.current_batch_size
              fifth == world'.last = "throttle" /\ (world.throttles + 1) % 5 = 0
          IN /\ new < cur => fifth
             /\ fifth => /\ new = AggressiveCut(cur, world.saturated, world'.warm)
                         /\ self'.consecutive_throttles = 0]_vars

\* The same law with the warm-up the manager keeps in autoscale_warmup_period,
\* which no throttle sets again.
ThrottleToleranceOfCode ==
    [][(cpc = "upserting" /\ self.is_autoscale) =>
          LET cur == self.current_batch_size
              new == self'.current_batch_size
              fifth == world'.last = "throttle" /\ (world.throttles + 1) % 5 = 0
          IN /\ new < cur => fifth
             /\ fifth => /\ new = AggressiveCut(cur, world.saturated,
                                                self.autoscale_warmup_period)
                         /\ self'.consecutive_throttles = 0]_vars

\* C20 (policy selection): a container detected as autoscale or as serverless
\* gets the aggressive policy (throttle tolerance 5) and the 0.95 safety
\* margin; one with manual throughput the conservative policy (tolerance 2) and
\* the 0.75 margin.
PolicySelection ==
    cpc = "upserting" =>
        LET aggressive == world.config.throughput_type
                              \in {"autoscale", "autoscale_shared", "serverless"}
        IN /\ self.is_autoscale = aggressive
           /\ self.throttle_tolerance = (IF aggressive THEN 5 ELSE 2)
           /\ world.concurrency_config.available_rus_per_second =
                  world.config.provisioned_rus * (IF aggressive THEN 95 ELSE 75)

\* The selection for the containers that have an offer.
PolicySelectionOfOffers ==
    world.config.throughput_type # "serverless" => PolicySelection

-----------------------------------------------------------------------------
(* The Aggressive policy under a run of successes after the throttles have
   stopped (SpecScaleUp, with weak fairness of the successes) *)

\* The counters as far as the manager looks at them: consecutive_successes is
\* compared with 20 and 30, operations_since_last_throttle with 100 and 200.
Saturated(m) ==
    [m EXCEPT !.consecutive_successes = Min(@, 30),
              !.operations_since_last_throttle = Min(@, 201)]

InitScaleUp ==
    /\ ShredIdle
    /\ WriterIdle
    /\ ExportIdle
    /\ ReaderIdle
    /\ \E offer \in {o \in Offers : o.found /\ o.offerAutopilotSettings},
          total_docs \in TotalDocs :
          LET config == discover_container_configuration(offer)
              concurrency_config == calculate_optimal_concurrency(config, total_docs, 1)
          IN /\ self = AdaptiveThrottleManager(concurrency_config)
             /\ world = [config |-> config, concurrency_config |-> concurrency_config,
                         start |-> 0]
    /\ clock = 0
    /\ sleeps = <<>>
    /\ cpc = "upserting"

\* A task reports a success (no request charge in the response headers).
Succeeded ==
    /\ cpc \in {"upserting", "successes"}
    /\ self' = Saturated(report_success(self, 0))
    /\ UNCHANGED <<clock, sleeps, world, cpc>>
    /\ UNCHANGED nonControlVars

\* A task reports a throttle (HTTP 429).
Throttled ==
    /\ cpc = "upserting"
    /\ self.total_throttles < MaxThrottles
    /\ self' = report_throttle(self)
    /\ UNCHANGED <<clock, sleeps, world, cpc>>
    /\ UNCHANGED nonControlVars

\* The server stops throttling: from here on every upsert succeeds.  The
\* history in world: the batch size at which the run of successes starts.
ThrottlesEnd ==
    /\ cpc = "upserting"
    /\ cpc' = "successes"
    /\ world' = [world EXCEPT !.start = self.current_batch_size]
    /\ UNCHANGED <<self, clock, sleeps>>
    /\ UNCHANGED nonControlVars

NextScaleUp == Succeeded \/ Throttled \/ ThrottlesEnd

SpecScaleUp == InitScaleUp /\ [][NextScaleUp]_vars /\ WF_vars(Succeeded)

\* C39 (scale-up liveness): under the Aggressive policy, from every reachable
\* state with current_batch_size < max_batch_size, also after throttles have
\* cut the batch size, an unbroken run of report_success calls eventually
\* increases current_batch_size and ultimately reaches max_batch_size.
ScaleUpLiveness ==
    /\ (cpc = "successes" /\ world.start < self.max_batch_size)
           ~> (self.current_batch_size > world.start)
    /\ (cpc = "successes") ~> (self.current_batch_size = self.max_batch_size)

\* What the manager does reach: from a batch size of 10 or more the run of
\* successes reaches max_batch_size.
ScaleUpLivenessFromTen ==
    (cpc = "successes" /\ self.current_batch_size >= 10)
        ~> (self.current_batch_size = self.max_batch_size)

-----------------------------------------------------------------------------
(* One import run: _process_all_batches, batch_upsert_documents and
   upsert_item_with_retry (SpecImport).  self holds the objects the tasks
   share: the throttle manager, its lock and the semaphore of the batch. *)

MaxRows == 6        \* parent rows of a run whose batches are upserted concurrently
MaxSerial == 21     \* parent rows of a run that upserts one document per batch

PROGRESS_LOG_INTERVAL == 100
MAX_FAILED_SAMPLES == 20

\* What the server answers to the upserts of one document: always 200, always
\* 400, always 429, always 503, or 429 to the first attempt and 200 afterwards.
Response(fate, attempt) ==
    CASE fate = "ok" -> 200
      [] fate = "bad" -> 400
      [] fate = "busy" -> 429
      [] fate = "down" -> 503
      [] fate = "once" -> IF attempt = 0 THEN 429 ELSE 200

\* The runs tried: the number of parent rows, params["batch_size"], the average
\* document size of the sample, and the server's answer for each row.
ImportRuns ==
    LET run_(n, b, kb, fate) == [total_parent_rows |-> n, batch_size |-> b,
                                 avg_doc_size_kb |-> kb, fate |-> fate]
        all(n, f) == [i \in 1..n |-> f]
        one(n, k, f) == [i \in 1..n |-> IF i = k THEN f ELSE "ok"]
    IN {run_(MaxRows, MaxRows, 11, ft) :
            ft \in {all(MaxRows, "ok"), one(MaxRows, 1, "bad"), one(MaxRows, MaxRows, "once")}}
       \cup UNION {{run_(n, 2, kb, ft) :
                        kb \in {0, 11},
                        ft \in {all(n, "ok"), all(n, "bad"), one(n, 1, "busy"),
                                one(n, 2, "down"), one(n, n, "once")}} : n \in 0..3}
       \cup UNION {{run_(n, 1, 11, ft) : ft \in {all(n, "bad"), all(n, "ok"),
                                                  [i \in 1..n |-> IF i = 1 THEN "ok" ELSE "bad"],
                                                  one(n, MaxSerial, "busy")}} :
                        n \in {MaxSerial, MaxSerial + 1}}

\* read_csv_from_adls_batched: skiprows = range(1, skip_rows + 1) when
\* skip_rows > 0, nrows only when it is truthy.  rows are the data rows.
read_csv_from_adls_batched(rows, skip_rows, nrows) ==
    LET rest == SubSeq(rows, skip_rows + 1, Len(rows))
    IN IF nrows # 0 THEN SubSeq(rest, 1, Min(nrows, Len(rest))) ELSE rest

\* num_batches of _process_all_batches.
num_batches(total_parent_rows, batch_size_) ==
    (total_parent_rows + batch_size_ - 1) \div batch_size_

\* A gate that never makes a task wait.
NeverLocked(value) == FALSE

\* asyncio.Semaphore.locked(): "async with semaphore" waits while it holds.
SemaphoreLocked(value) == value = 0

\* A lock that is handed to every caller.
LockAlwaysFree(holders) == TRUE

\* asyncio.Lock: "async with self.lock" waits while another task is inside.
LockFree(holders) == holders = {}

\* A batch that returns when the first upsert has completed.
FirstCompleted(tasks) == \E i \in DOMAIN tasks : tasks[i].st \in {"ok", "failed"}

\* "await asyncio.gather(*chunk)" for every chunk: all the tasks have returned.
Gathered(tasks) == \A i \in DOMAIN tasks : tasks[i].st \in {"ok", "failed"}

\* The chunk of PROGRESS_LOG_INTERVAL tasks a task is gathered with.
ChunkOf(i) == (i - 1) \div PROGRESS_LOG_INTERVAL

\* A report that lists every failed document.
AllFailed(docs) == docs

\* failed_docs[:20]
FailedSample(docs) == SubSeq(docs, 1, Min(MAX_FAILED_SAMPLES, Len(docs)))

\* The states in which a task is inside "async with semaphore".
Holding == {"flight", "report_success", "report_throttle", "in_success", "in_throttle", "sleep"}

InitImport ==
    /\ ShredIdle
    /\ WriterIdle
    /\ ExportIdle
    /\ ReaderIdle
    /\ \E offer \in Offers, r \in ImportRuns :
          LET config == discover_container_configuration(offer)
              concurrency_config ==
                  calculate_optimal_concurrency(config, r.total_parent_rows, r.avg_doc_size_kb)
          IN /\ self = [throttle_manager |-> AdaptiveThrottleManager(concurrency_config),
                        lock |-> {}, semaphore |-> 0]
             /\ world = [params |-> r, config |-> config,
                         concurrency_config |-> concurrency_config,
                         batch_num |-> 0, skip_rows |-> 0, tasks |-> <<>>,
                         total_successful |-> 0, total_failed |-> 0,
                         all_failed_docs |-> <<>>, processed_parents |-> 0,
                         total_throttles |-> 0, response |-> <<>>,
                         outcome |-> [d \in 1..r.total_parent_rows |-> "none"],
                         upserted |-> {}, batches |-> <<>>, reports |-> <<>>,
                         permits |-> <<>>, sizes |-> <<>>]
    /\ clock = 0
    /\ sleeps = <<>>
    /\ cpc = "batches"

\* Lines 1842-1860 and 1025-1038: the next batch of parent rows is read and a
\* task is made for each of its documents, behind a new semaphore.  The
\* history in world: the permits of the semaphore of each batch and the
\* current_batch_size of the throttle manager when the batch started.
StartBatch ==
    /\ cpc = "batches"
    /\ world.batch_num < num_batches(world.params.total_parent_rows, world.params.batch_size)
    /\ LET skip_rows == world.batch_num * world.params.batch_size
           current_batch_size == Min(world.params.batch_size,
                                     world.params.total_parent_rows - skip_rows)
           parent_df == read_csv_from_adls_batched(
                            [d \in 1..world.params.total_parent_rows |-> d],
                            skip_rows, current_batch_size)
       IN /\ world' = [world EXCEPT
                         !.skip_rows = skip_rows,
                         !.tasks = [i \in 1..Len(parent_df) |->
                                       [doc |-> parent_df[i], st |-> "new", attempt |-> 0]],
                         !.batches = @ \o <<parent_df>>,
                         !.permits = @ \o <<world.concurrency_config.max_concurrent_operations>>,
                         !.sizes = @ \o <<self.throttle_manager.current_batch_size>>]
          /\ self' = [self EXCEPT
                        !.semaphore = world.concurrency_config.max_concurrent_operations]
    /\ cpc' = "upserting"
    /\ UNCHANGED <<clock, sleeps>>
    /\ UNCHANGED nonControlVars

\* Line 896: a task of the chunk being gathered enters the gate and sends
\* its first request (line 899).
Acquire ==
    /\ cpc = "upserting"
    /\ \E i \in DOMAIN world.tasks :
          /\ world.tasks[i].st = "new"
          /\ \A j \in DOMAIN world.tasks :
                 ChunkOf(j) < ChunkOf(i) => world.tasks[j].st \in {"ok", "failed"}
          /\ ~SemaphoreLocked(self.semaphore)
          /\ self' = [self EXCEPT !.semaphore = @ - 1]
          /\ world' = [world EXCEPT !.tasks[i].st = "flight"]
    /\ UNCHANGED <<clock, sleeps, cpc>>
    /\ UNCHANGED nonControlVars

\* Lines 899-930: the answer to a request.  200 and 429 lead to a report to
\* the throttle manager; 408/503/500 to a sleep while attempts are left; any
\* other answer, and the last attempt, to the return of a failure, which
\* leaves the gate.
Respond ==
    /\ cpc = "upserting"
    /\ \E i \in DOMAIN world.tasks :
          LET task == world.tasks[i]
              status_code == Response(world.params.fate[task.doc], task.attempt)
              fails == \/ status_code \notin {200, 429, 408, 503, 500}
                       \/ status_code \in {408, 503, 500} /\ ~(task.attempt < RETRY_MAX_ATTEMPTS - 1)
          IN /\ task.st = "flight"
             /\ world' = [world EXCEPT
                   !.tasks[i].st = IF status_code = 200 THEN "report_success"
                                   ELSE IF status_code = 429 THEN "report_throttle"
                                   ELSE IF fails THEN "failed"
                                   ELSE "sleep",
                   !.upserted = IF status_code = 200 THEN @ \cup {task.doc} ELSE @,
                   !.outcome[task.doc] = IF fails THEN "failed" ELSE @]
             /\ self' = [self EXCEPT !.semaphore = IF fails THEN @ + 1 ELSE @]
    /\ UNCHANGED <<clock, sleeps, cpc>>
    /\ UNCHANGED nonControlVars

\* Lines 748 and 797: the task enters "async with self.lock".
Enter ==
    /\ cpc = "upserting"
    /\ \E i \in DOMAIN world.tasks :
          /\ world.tasks[i].st \in {"report_success", "report_throttle"}
          /\ LockFree(self.lock)
          /\ self' = [self EXCEPT !.lock = @ \cup {i}]
          /\ world' = [world EXCEPT
                !.tasks[i].st = IF @ = "report_success" THEN "in_success" ELSE "in_throttle",
                !.reports = @ \o <<world.tasks[i].st>>]
    /\ UNCHANGED <<clock, sleeps, cpc>>
    /\ UNCHANGED nonControlVars

\* Lines 749-758 and 798-803, then the rest of the attempt: after a success
\* the task returns (line 902); after a throttle it sleeps if attempts are
\* left (909-911) and returns the failure otherwise (919-921).
Leave ==
    /\ cpc = "upserting"
    /\ \E i \in DOMAIN world.tasks :
          LET task == world.tasks[i]
              last == ~(task.attempt < RETRY_MAX_ATTEMPTS - 1)
          IN \/ /\ task.st = "in_success"
                /\ self' = [self EXCEPT
                              !.throttle_manager = report_success(@, 7),
                              !.lock = @ \ {i},
                              !.semaphore = @ + 1]
                /\ world' = [world EXCEPT !.tasks[i].st = "ok",
                                          !.outcome[task.doc] = "ok"]
             \/ /\ task.st = "in_throttle"
                /\ self' = [self EXCEPT
                              !.throttle_manager = report_throttle(@),
                              !.lock = @ \ {i},
                              !.semaphore = IF last THEN @ + 1 ELSE @]
                /\ world' = [world EXCEPT
                               !.tasks[i].st = IF last THEN "failed" ELSE "sleep",
                               !.outcome[task.doc] = IF last THEN "failed" ELSE @]
    /\ UNCHANGED <<clock, sleeps, cpc>>
    /\ UNCHANGED nonControlVars

\* Lines 910-911 and 916-917: the sleep ends and the next attempt is sent.
Wake ==
    /\ cpc = "upserting"
    /\ \E i \in DOMAIN world.tasks :
          /\ world.tasks[i].st = "sleep"
          /\ world' = [world EXCEPT !.tasks[i].st = "flight",
                                    !.tasks[i].attempt = @ + 1]
    /\ UNCHANGED <<self, clock, sleeps, cpc>>
    /\ UNCHANGED nonControlVars

\* Lines 1044-1068 and 1862-1869: the tasks are gathered, the batch result is
\* built (get_stats under the lock) and added to the totals of the run.
FinishBatch ==
    /\ cpc = "upserting"
    /\ Gathered(world.tasks)
    /\ LockFree(self.lock)
    /\ LET total_docs == Len(world.tasks)
           successful == Len(SelectSeq(world.tasks, LAMBDA t : t.st = "ok"))
           failed == total_docs - successful
           failed_tasks == SelectSeq(world.tasks, LAMBDA t : t.st # "ok")
           failed_docs == [i \in 1..Len(failed_tasks) |-> failed_tasks[i].doc]
       IN world' = [world EXCEPT
                      !.total_successful = @ + successful,
                      !.total_failed = @ + failed,
                      !.total_throttles = @ + self.throttle_manager.total_throttles,
                      !.all_failed_docs = @ \o FailedSample(failed_docs),
                      !.processed_parents = @ + total_docs,
                      !.batch_num = @ + 1]
    /\ cpc' = "batches"
    /\ UNCHANGED <<self, clock, sleeps>>
    /\ UNCHANGED nonControlVars

\* Lines 1873-1887 and _build_response.
BuildResponse ==
    /\ cpc = "batches"
    /\ ~(world.batch_num < num_batches(world.params.total_parent_rows, world.params.batch_size))
    /\ world' = [world EXCEPT !.response =
                    [status |-> IF world.total_failed = 0 THEN "completed"
                                ELSE "completed_with_errors",
                     total_documents |-> world.params.total_parent_rows,
                     successful |-> world.total_successful,
                     failed |-> world.total_failed,
                     total_throttles |-> world.total_throttles,
                     failed_document_ids |-> FailedSample(FailedSample(world.all_failed_docs))]]
    /\ cpc' = "done"
    /\ UNCHANGED <<self, clock, sleeps>>
    /\ UNCHANGED nonControlVars

NextImport ==
    \/ StartBatch
    \/ Acquire
    \/ Respond
    \/ Enter
    \/ Leave
    \/ Wake
    \/ FinishBatch
    \/ BuildResponse

SpecImport == InitImport /\ [][NextImport]_vars

-----------------------------------------------------------------------------
(* Claims about the import run (checked under SpecImport) *)

\* The tasks of the batch that are inside the gate.
Holders == {i \in DOMAIN world.tasks : world.tasks[i].st \in Holding}

\* C21 (bounded parallelism): maxConcurrent is within 5..500; at every instant
\* of a batch upsert at most maxConcurrent upserts hold the gate, in flight or
\* sleeping before a retry; and when the batch has returned every permit has
\* been released, whether its upserts succeeded or failed.
BoundedParallelism ==
    cpc # "idle" =>
        LET max_concurrent == world.concurrency_config.max_concurrent_operations
        IN /\ max_concurrent \in MIN_CONCURRENT_OPERATIONS..MAX_CONCURRENT_OPERATIONS_ABSOLUTE
           /\ Cardinality(Holders) <= max_concurrent
           /\ cpc = "upserting" => self.semaphore = max_concurrent - Cardinality(Holders)
           /\ (cpc \in {"batches", "done"} /\ world.batch_num > 0) =>
                  /\ Holders = {}
                  /\ self.semaphore = max_concurrent

\* The gate is full, one of its holders sleeps before a retry, and a task of
\* the batch waits outside.
BoundedParallelismWitness ==
    /\ cpc = "upserting"
    /\ Cardinality(Holders) = world.concurrency_config.max_concurrent_operations
    /\ \E i \in Holders : world.tasks[i].st = "sleep"
    /\ \E i \in DOMAIN world.tasks : world.tasks[i].st = "new"

\* The documents whose upsert has started.
Started ==
    {d \in DOMAIN world.outcome : world.outcome[d] # "none"}
    \cup {world.tasks[i].doc : i \in {j \in DOMAIN world.tasks : world.tasks[j].st # "new"}}

\* C22 (batch order on import): batch k (from 0) holds the parent rows
\* k*batchSize .. min((k+1)*batchSize, total)-1 in file order, every parent
\* row is in exactly one batch, and no upsert of a batch starts before every
\* upsert of the batches before it has completed.
BatchOrder ==
    cpc \notin {"idle"} =>
        LET total == world.params.total_parent_rows
            size == world.params.batch_size
        IN /\ \A k \in 1..Len(world.batches) :
                  world.batches[k] = [i \in 1..(Min(k * size, total) - (k - 1) * size) |->
                                         (k - 1) * size + i]
           /\ cpc = "done" => Concat(world.batches) = [d \in 1..total |-> d]
           /\ \A k \in 1..Len(world.batches) :
                  (Range(world.batches[k]) \cap Started # {}) =>
                      \A j \in 1..(k - 1) : \A d \in Range(world.batches[j]) :
                          world.outcome[d] # "none"

\* The last batch of a run is shorter than its batch size and one of its
\* upserts is in flight after the batches before it have completed.
BatchOrderWitness ==
    /\ cpc = "upserting"
    /\ Len(world.batches) = 2
    /\ Len(world.batches[2]) < world.params.batch_size
    /\ \E i \in DOMAIN world.tasks : world.tasks[i].st = "flight"
    /\ \E d \in Range(world.batches[1]) : world.outcome[d] = "failed"

\* The manager after a sequence of reports applied one after the other.
RECURSIVE Replay(_, _)
Replay(reports, m) ==
    IF reports = <<>> THEN m
    ELSE Replay(Tail(reports),
                IF Head(reports) = "report_success" THEN report_success(m, 7)
                ELSE report_throttle(m))

\* C23 (single-writer discipline): with any number of concurrent upsert tasks
\* at most one task is inside the body of report_success, report_throttle or
\* get_stats, and the fields of the manager are those that the reports made so
\* far give when applied one after the other in the order they entered.
SingleWriter ==
    cpc # "idle" =>
        LET done == IF self.lock = {} THEN world.reports
                    ELSE SubSeq(world.reports, 1, Len(world.reports) - 1)
        IN /\ Cardinality(self.lock) <= 1
           /\ self.throttle_manager
                  = Replay(done, AdaptiveThrottleManager(world.concurrency_config))

\* A task is inside a report while two others wait for the lock, one with a
\* success and one with a throttle.
SingleWriterWitness ==
    /\ cpc = "upserting"
    /\ self.lock # {}
    /\ \E i \in DOMAIN world.tasks : world.tasks[i].st = "report_success"
    /\ \E i \in DOMAIN world.tasks : world.tasks[i].st = "report_throttle"

\* C24 (per-document failure isolation): every document of a batch yields one
\* outcome; a failed document prevents the upsert of no other document of its
\* batch or of a later one; successful + failed is the number of parent rows;
\* at most 20 failed document ids are reported; and the status of the run is
\* completed_with_errors exactly when failed > 0, completed otherwise.
FailureIsolation ==
    /\ cpc \in {"upserting", "batches", "done"} =>
           \A i \in DOMAIN world.tasks :
               (world.tasks[i].st \in {"ok", "failed"})
                   <=> (world.outcome[world.tasks[i].doc] = world.tasks[i].st)
    /\ cpc = "done" =>
           LET accepted == {d \in 1..world.params.total_parent_rows :
                               world.params.fate[d] \in {"ok", "once"}}
               r == world.response
           IN /\ \A d \in 1..world.params.total_parent_rows :
                     world.outcome[d] = IF d \in accepted THEN "ok" ELSE "failed"
              /\ world.upserted = accepted
              /\ r.successful = Cardinality(accepted)
              /\ r.successful + r.failed = world.params.total_parent_rows
              /\ Len(r.failed_document_ids) <= 20
              /\ Len(r.failed_document_ids) = Min(20, r.failed)
              /\ Range(r.failed_document_ids) \cap accepted = {}
              /\ r.status = IF r.failed > 0 THEN "completed_with_errors" ELSE "completed"

\* A finished run in which more than 20 documents failed and one succeeded.
FailureIsolationWitness ==
    /\ cpc = "done"
    /\ world.response.failed > 20
    /\ world.response.successful > 0
    /\ Len(world.response.failed_document_ids) = 20

\* C35 (adaptive concurrency): the writer's admission of upserts follows the
\* state of the throttle manager: a batch that starts after the manager cut
\* current_batch_size admits fewer upserts at a time than the batch before
\* it, and one that starts after a scale-up admits more.
AdaptiveConcurrency ==
    cpc # "idle" =>
        \A k \in 1..(Len(world.permits) - 1) :
            /\ world.sizes[k + 1] < world.sizes[k] => world.permits[k + 1] < world.permits[k]
            /\ world.sizes[k + 1] > world.sizes[k] => world.permits[k + 1] > world.permits[k]

\* What the writer does: every batch of a run is admitted through a gate of
\* max_concurrent_operations permits, whatever the manager's batch size.
AdmissionIsConstant ==
    cpc # "idle" =>
        \A k \in 1..Len(world.permits) :
            world.permits[k] = world.concurrency_config.max_concurrent_operations

\* C40 (throttle count in the report): total_throttles of the import report
\* equals the number of report_throttle calls (429 answers) made during the
\* whole run, for any number of batches.
ThrottleCount ==
    cpc = "done" =>
        world.response.total_throttles
            = Len(SelectSeq(world.reports, LAMBDA r : r = "report_throttle"))

\* The same for the runs of at most one batch.
ThrottleCountOfOneBatch ==
    (cpc = "done" /\ Len(world.batches) <= 1) =>
        world.response.total_throttles
            = Len(SelectSeq(world.reports, LAMBDA r : r = "report_throttle"))

-----------------------------------------------------------------------------
(* Truncate before import: _handle_truncate (SpecTruncate).  world holds the
   database as the server sees it, self the locals of the call. *)

MaxItems == 2       \* documents in the container before the truncate

\* The throughput of a container: a dedicated autoscale or manual offer, or
\* none of its own (it shares the throughput of its database).
Dedicated == {[kind |-> "autoscale", ru |-> 1000], [kind |-> "autoscale", ru |-> 4000],
              [kind |-> "manual", ru |-> 400], [kind |-> "manual", ru |-> 1000]}
SharedThroughput == [kind |-> "shared", ru |-> 0]

\* The containers tried, as the server holds them.
ExistingContainers ==
    {[exists |-> TRUE, paths |-> p, throughput |-> t, items |-> n] :
        p \in {<<"/id">>, <<"/pk">>, <<"/tenant", "/user">>},
        t \in Dedicated \cup {SharedThroughput},
        n \in 0..MaxItems}
NoContainer == [exists |-> FALSE, paths |-> <<>>, throughput |-> SharedThroughput, items |-> 0]

\* offer.properties of a dedicated offer: content.offerThroughput, and
\* content.offerAutopilotSettings.maxThroughput for autoscale.
OfferProperties(throughput) ==
    [content |-> [offerThroughput |-> IF throughput.kind = "manual" THEN throughput.ru
                                      ELSE throughput.ru \div 10,
                  offerAutopilotSettings |-> IF throughput.kind = "autoscale"
                                             THEN [maxThroughput |-> throughput.ru]
                                             ELSE <<>>]]

\* database.create_container_if_not_exists(id, partition_key, offer_throughput):
\* a container made without an offer shares the database's throughput when the
\* database has one and gets the default manual 400 RU/s otherwise.
create_container_if_not_exists(container, paths, offer_throughput, shared_db) ==
    IF container.exists THEN container
    ELSE [exists |-> TRUE, paths |-> paths, items |-> 0,
          throughput |-> IF offer_throughput.kind # "none" THEN offer_throughput
                         ELSE IF shared_db THEN SharedThroughput
                         ELSE [kind |-> "manual", ru |-> 400]]

\* Lines 1739-1760: the offer the container is recreated with.
RecreateOffer(previous_offer_props) ==
    LET offer_content == IF previous_offer_props.some THEN previous_offer_props.props.content
                         ELSE <<>>
        autoscale == IF "offerAutopilotSettings" \in DOMAIN offer_content
                     THEN offer_content.offerAutopilotSettings ELSE <<>>
        manual_ru == IF "offerThroughput" \in DOMAIN offer_content
                     THEN offer_content.offerThroughput ELSE 0
    IN IF autoscale # <<>>
       THEN [kind |-> "autoscale",
             ru |-> IF "maxThroughput" \in DOMAIN autoscale THEN autoscale.maxThroughput
                    ELSE 4000]
       ELSE IF manual_ru # 0 THEN [kind |-> "manual", ru |-> manual_ru]
       ELSE [kind |-> "none", ru |-> 0]

InitTruncate ==
    /\ ShredIdle
    /\ WriterIdle
    /\ ExportIdle
    /\ ReaderIdle
    /\ \E c \in ExistingContainers \cup {NoContainer}, shared_db \in BOOLEAN :
          /\ c.throughput = SharedThroughput => shared_db \/ ~c.exists
          /\ world = [container |-> c, before |-> c, shared_db |-> shared_db,
                      offer_read |-> "no"]
    /\ self = [partition_key_paths |-> <<>>,
               previous_offer_props |-> [some |-> FALSE, props |-> <<>>]]
    /\ clock = 0
    /\ sleeps = <<>>
    /\ cpc = "read"

\* Lines 1718-1727: container.read(); a missing container is a ValueError.
ReadProperties ==
    /\ cpc = "read"
    /\ IF world.container.exists
       THEN /\ self' = [self EXCEPT !.partition_key_paths = world.container.paths]
            /\ cpc' = "get_throughput"
       ELSE /\ self' = self
            /\ cpc' = "raised"
    /\ UNCHANGED <<clock, sleeps, world>>
    /\ UNCHANGED nonControlVars

\* Lines 1729-1735: container.get_throughput().  It gives the offer of a
\* container with dedicated throughput and raises for a container without
\* one; like every request it can also fail (429, timeout), and every
\* exception is caught.
GetThroughput ==
    /\ cpc = "get_throughput"
    /\ \/ /\ world.container.throughput.kind # "shared"
          /\ self' = [self EXCEPT !.previous_offer_props =
                         [some |-> TRUE,
                          props |-> OfferProperties(world.container.throughput)]]
          /\ world' = [world EXCEPT !.offer_read = "offer"]
       \/ /\ self' = self
          /\ world' = [world EXCEPT !.offer_read =
                          IF world.container.throughput.kind = "shared" THEN "none"
                          ELSE "failed"]
    /\ cpc' = "delete"
    /\ UNCHANGED <<clock, sleeps>>
    /\ UNCHANGED nonControlVars

\* Line 1737: database.delete_container(cosmos_container).
DeleteContainer ==
    /\ cpc = "delete"
    /\ world' = [world EXCEPT !.container = NoContainer]
    /\ cpc' = "create"
    /\ UNCHANGED <<self, clock, sleeps>>
    /\ UNCHANGED nonControlVars

\* Lines 1739-1760: the container is created again; PartitionKey(path=paths)
\* carries the paths read before.
RecreateContainer ==
    /\ cpc = "create"
    /\ world' = [world EXCEPT !.container =
                    create_container_if_not_exists(world.container, self.partition_key_paths,
                                                   RecreateOffer(self.previous_offer_props),
                                                   world.shared_db)]
    /\ cpc' = "returned"
    /\ UNCHANGED <<self, clock, sleeps>>
    /\ UNCHANGED nonControlVars

SpecTruncate ==
    InitTruncate /\ [][ReadProperties \/ GetThroughput \/ DeleteContainer \/ RecreateContainer]_vars

\* C25 (truncate preserves the container definition): after the truncate of
\* an existing container the container exists again, is empty, and has the
\* partition-key paths and the throughput setting (autoscale maximum or
\* manual RU) it had before.
TruncatePreserves ==
    (cpc = "returned" /\ world.before.exists) =>
        /\ world.container.exists
        /\ world.container.items = 0
        /\ world.container.paths = world.before.paths
        /\ world.container.throughput = world.before.throughput

\* The same, for the truncates whose get_throughput request was answered (with
\* the offer, or with the absence of a dedicated offer).
TruncatePreservesWhenOfferIsRead ==
    (cpc = "returned" /\ world.before.exists /\ world.offer_read # "failed") =>
        /\ world.container.exists
        /\ world.container.items = 0
        /\ world.container.paths = world.before.paths
        /\ world.container.throughput = world.before.throughput

\* An autoscale container with documents and two partition-key paths has been
\* truncated after its offer was read.
TruncatePreservesWitness ==
    /\ cpc = "returned"
    /\ world.before.exists
    /\ world.before.items > 0
    /\ world.before.throughput.kind = "autoscale"
    /\ world.offer_read = "offer"
    /\ Len(world.before.paths) = 2

-----------------------------------------------------------------------------
(* The head of a run of either pipeline: parameter validation, then the
   secret, the stores and the first change (SpecParams).  world holds the
   request body and the history of what the run has touched, self the
   extracted parameters. *)

\* The string parameters every run requires (export lines 1161-1167).
REQUIRED == {"cosmos_url", "key_vault_name", "cosmos_secret_name", "cosmos_db",
             "cosmos_container", "adls_account_name", "adls_file_system"}
ADLS_DIRECTORY == "adls_directory"
TRUNCATE == "truncate_sink_before_write"

\* body.get(key): a key the body lacks and a JSON null both give None.
\* A string parameter is null, empty or a name; the boolean is null, true or false.
Bool(b) == [t |-> "b", v |-> b]
Bodies ==
    [REQUIRED \cup {ADLS_DIRECTORY} -> {NULL, EMPTY, S("x")}]
RequestBodies ==
    {[pipeline |-> "export", body |-> b, truncate |-> NULL] :
        b \in {x \in Bodies : x[ADLS_DIRECTORY] = S("x")}}
    \cup {[pipeline |-> "import", body |-> b, truncate |-> t] :
            b \in Bodies, t \in {NULL, Bool(TRUE), Bool(FALSE)}}

\* A validation that only looks for parameters that are not there.
OnlyNone(v) == v = NULL

\* "if not v" of the missing lists (export line 1180, import line 1689).
NotV(v) == v = NULL \/ v = EMPTY

\* validate_and_extract_params (export) and _extract_parameters with
\* _validate_parameters (import): TRUE when a ValueError is raised.
RaisesValueError(request) ==
    IF request.pipeline = "export"
    THEN \E k \in REQUIRED : NotV(request.body[k])
    ELSE \/ \E k \in REQUIRED \cup {ADLS_DIRECTORY} : NotV(request.body[k])
         \/ request.truncate = NULL

InitParams ==
    /\ ShredIdle
    /\ WriterIdle
    /\ ExportIdle
    /\ ReaderIdle
    /\ \E request \in RequestBodies : world = [request |-> request, touched |-> {}]
    /\ self = <<>>
    /\ clock = 0
    /\ sleeps = <<>>
    /\ cpc = "validate"

\* Export line 1407 (a ValueError ends the run at 1536-1538 with status
\* "error"); import lines 1581-1582 (the ValueError leaves the activity).
ValidateParameters ==
    /\ cpc = "validate"
    /\ IF RaisesValueError(world.request)
       THEN /\ cpc' = "error"
            /\ self' = self
       ELSE /\ cpc' = "secret"
            /\ self' = [truncate |-> world.request.truncate = Bool(TRUE)]
    /\ UNCHANGED <<clock, sleeps, world>>
    /\ UNCHANGED nonControlVars

\* get_secret (export line 1409, import line 1584).
GetSecret ==
    /\ cpc = "secret"
    /\ world' = [world EXCEPT !.touched = @ \cup {"secret"}]
    /\ cpc' = "connect"
    /\ UNCHANGED <<self, clock, sleeps>>
    /\ UNCHANGED nonControlVars

\* The clients of both stores (export lines 1413-1422, import 1589-1609).
Connect ==
    /\ cpc = "connect"
    /\ world' = [world EXCEPT !.touched = @ \cup {"cosmos", "adls"}]
    /\ cpc' = "change"
    /\ UNCHANGED <<self, clock, sleeps>>
    /\ UNCHANGED nonControlVars

\* The first change a run makes: the export writes its files (line 1470 on),
\* the import truncates the container when asked to (lines 1612-1613).
FirstChange ==
    /\ cpc = "change"
    /\ world' = [world EXCEPT !.touched =
                    IF world.request.pipeline = "export" THEN @ \cup {"file"}
                    ELSE IF self.truncate THEN @ \cup {"truncate"}
                    ELSE @]
    /\ cpc' = "running"
    /\ UNCHANGED <<self, clock, sleeps>>
    /\ UNCHANGED nonControlVars

SpecParams ==
    InitParams /\ [][ValidateParameters \/ GetSecret \/ Connect \/ FirstChange]_vars

\* The request lacks a required parameter or gives it empty.
MissingRequired ==
    \/ \E k \in REQUIRED : world.request.body[k] \in {NULL, EMPTY}
    \/ /\ world.request.pipeline = "import"
       /\ \/ world.request.body[ADLS_DIRECTORY] \in {NULL, EMPTY}
          \/ world.request.truncate = NULL

-----------------------------------------------------------------------------
(* The import of one export directory, batch after batch of parent rows *)

\* chunk_size of process_child_csv_streaming (10000 rows), scaled down, and
\* the largest params["batch_size"] tried.
ChunkRows == 1
MaxBatchRows == 2

\* Documents whose objects each carry a value of their own: d in a document,
\* c in an element of a or of a.b.
ElemOf(x, ys) ==
    M((<<"c">> :> S(x)) @@ (<<"b">> :> A([i \in 1..Len(ys) |-> M(<<"c">> :> S(ys[i]))])))
StitchDoc1 ==
    (<<"d">> :> S("p1")) @@ (<<"a">> :> A(<<ElemOf("x1", <<"y1", "y2">>), ElemOf("x2", <<"y3">>)>>))
StitchDoc2 ==
    (<<"d">> :> S("p2")) @@ (<<"a">> :> A(<<ElemOf("x3", <<"y4">>)>>))
StitchDoc3 ==
    (<<"d">> :> S("p3")) @@ (<<"a">> :> A(<<M(<<"c">> :> S("x4"))>>))

\* A document whose a is an object holding the array b: the rows of its a.b
\* go to the file of table a.b, as the rows of b under the elements of a do.
StitchDoc4 ==
    (<<"d">> :> S("p4")) @@ (<<"a">> :> M(<<"b">> :> A(<<M(<<"c">> :> S("y9"))>>)))

\* The files an export of the documents leaves: one batch, every table written.
written_files(docs) ==
    LET out == process_document_batch(docs, 1)
    IN [t \in {CONTAINER} \cup DOMAIN out.children |->
           upload_csv_to_adls(NoFile, IF t = CONTAINER THEN out.parents ELSE out.children[t],
                              "write", NoneCols).file]

\* The cell of column col in line i of a file, and the file with that cell changed.
CellOf(file, i, col) ==
    file.rows[i][CHOOSE j \in 1..Len(file.header) : file.header[j] = col]
SetCell(file, i, col, val) ==
    [file EXCEPT !.rows[i][CHOOSE j \in 1..Len(file.header) : file.header[j] = col] = val]

TableA == <<"a">>
TableAB == <<"a", DOT, "b">>

\* Files that are not what one export writes: the first row of table a points
\* at a parent that is in no file; the last parent row carries the rid of the
\* first; the last row of table a carries the rid of the first.
Tampered(fs, how) ==
    IF how = "orphan"
    THEN [fs EXCEPT ![TableA] = SetCell(@, 1, PARENT_RID, S("none"))]
    ELSE IF how = "same_parent_rid"
    THEN [fs EXCEPT ![CONTAINER] = SetCell(@, Len(@.rows), RID, CellOf(@, 1, RID))]
    ELSE IF how = "same_child_rid"
    THEN [fs EXCEPT ![TableA] = SetCell(@, Len(@.rows), RID, CellOf(@, 1, RID))]
    ELSE fs

\* No read fails; or the read of one chunk of one child file fails, in every
\* batch that reads the file.
NoChunkFault == [table |-> <<>>, chunk |-> 0]
NumChunks(file) == (Len(file.rows) + ChunkRows - 1) \div ChunkRows

StitchRuns ==
    UNION {{[files |-> Tampered(written_files(docs), how), how |-> how,
             batch_size |-> n, fault |-> f] :
               how \in {"export", "orphan", "same_parent_rid", "same_child_rid"},
               n \in 1..MaxBatchRows,
               f \in {NoChunkFault}
                     \cup UNION {{[table |-> t, chunk |-> k] :
                                     k \in 1..NumChunks(written_files(docs)[t])} :
                                    t \in {TableA, TableAB}}} :
           docs \in {<<StitchDoc1, StitchDoc2>>, <<StitchDoc2, StitchDoc3, StitchDoc1>>,
                      <<StitchDoc4, StitchDoc2>>}}

InitStitch ==
    /\ WriterIdle
    /\ ExportIdle
    /\ ReaderIdle
    /\ pc = "batches"
    /\ doc = <<>>
    /\ arrayBatch = 1
    /\ parent_fields = <<>>
    /\ queue = <<>>
    /\ current_batch = <<>>
    /\ child_tables = <<>>
    /\ nextRid = 1
    /\ behind = <<>>
    /\ imp = ImpInit
    /\ result = <<>>
    /\ \E r \in StitchRuns :
          /\ files = r.files
          /\ world = [how |-> r.how, batch_size |-> r.batch_size, fault |-> r.fault,
                      batch_num |-> 0, documents |-> <<>>, log |-> <<>>, status |-> "running"]
    /\ self = <<>>
    /\ clock = 0
    /\ sleeps = <<>>
    /\ cpc = "idle"

\* The parent rows of the run and the number of its batches.
ParentRowCount == Len(files[CONTAINER].rows)
BatchCount == num_batches(ParentRowCount, world.batch_size)

\* _process_all_batches: read_csv_from_adls_batched(skip_rows, nrows) and the
\* head of process_batch.
ReadBatch ==
    /\ pc = "batches"
    /\ world.batch_num < BatchCount
    /\ LET skip_rows == world.batch_num * world.batch_size
           current_batch_size == Min(world.batch_size, ParentRowCount - skip_rows)
           parent_df == SubSeq(ReadCsv(files[CONTAINER]), skip_rows + 1,
                               skip_rows + current_batch_size)
       IN imp' = prepare_batch(parent_df, DOMAIN files \ {CONTAINER})
    /\ pc' = "load"
    /\ UNCHANGED <<doc, arrayBatch, parent_fields, queue, current_batch, child_tables,
                   nextRid, behind, files, result>>
    /\ UNCHANGED nonShredVars

\* The next child file is one whose read fails, and the filter is not empty.
ChunkFails ==
    /\ imp.todo # <<>>
    /\ world.fault.table = Head(imp.todo)
    /\ LET arr_name == Head(imp.todo)
           current_depth == DotCount(arr_name)
           st0 == [imp EXCEPT
                     !.rids_by_depth = IF current_depth + 1 \in DOMAIN @ THEN @
                                       ELSE Put(@, current_depth + 1, {})]
       IN determine_filter_rids(arr_name, current_depth, st0) # {}

\* One iteration of "for csv_info in csv_info_by_depth[current_depth]" whose
\* file is read to its end.
StreamChild ==
    /\ ~ChunkFails
    /\ LoadChild

\* One iteration whose read fails at chunk world.fault.chunk: the rows of the
\* chunks before it are in the tables and in the rid index, the exception
\* leaves the chunk loop and process_child_csv_streaming (lines 374-376), and
\* process_batch logs it and continues with the next file (lines 1174-1176).
StreamChildFails ==
    /\ pc = "load"
    /\ ChunkFails
    /\ LET arr_name == Head(imp.todo)
           current_depth == DotCount(arr_name)
           st0 == [imp EXCEPT
                     !.todo = Tail(@),
                     !.rids_by_depth = IF current_depth + 1 \in DOMAIN @ THEN @
                                       ELSE Put(@, current_depth + 1, {}),
                     !.child_objects_by_table =
                         IF arr_name \in DOMAIN @ THEN @ ELSE Put(@, arr_name, <<>>),
                     !.tableOrder = IF arr_name \in DOMAIN imp.child_objects_by_table
                                    THEN @ ELSE @ \o <<arr_name>>,
                     !.loaded_rids = {}]
           filter_rids == determine_filter_rids(arr_name, current_depth, st0)
           read == SubSeq(ReadCsv(files[arr_name]), 1, ChunkRows * (world.fault.chunk - 1))
           filtered == SelectSeq(read, LAMBDA r : r[PARENT_RID].v \in filter_rids)
       IN imp' = [LoadRows(filtered, arr_name, st0) EXCEPT !.child_rows = imp.child_rows]
    /\ world' = [world EXCEPT !.log = @ \o <<[error |-> "streaming", table |-> Head(imp.todo),
                                               batch |-> world.batch_num]>>]
    /\ UNCHANGED <<pc, doc, arrayBatch, parent_fields, queue, current_batch, child_tables,
                   nextRid, behind, files, result>>
    /\ UNCHANGED <<self, clock, sleeps, cpc>>
    /\ UNCHANGED <<writerVars, exportVars, readerVars>>

\* The tail of process_batch: _clean_documents, strip_system_fields and the
\* upsert of the batch's documents; then the next batch.
UpsertBatch ==
    /\ pc = "assign"
    /\ imp.todo = <<>>
    /\ result' = [i \in 1..Len(imp.batch_parents) |->
                     strip_system_fields(M(clean_document(
                         Resolve(imp.heap, M(imp.heap[imp.batch_parents[i]])).f))).f]
    /\ world' = [world EXCEPT !.documents = @ \o result', !.batch_num = @ + 1]
    /\ pc' = "batches"
    /\ UNCHANGED <<doc, arrayBatch, parent_fields, queue, current_batch, child_tables,
                   nextRid, behind, files, imp>>
    /\ UNCHANGED <<self, clock, sleeps, cpc>>
    /\ UNCHANGED <<writerVars, exportVars, readerVars>>

\* The loop over the batches has ended: the activity returns its report.
EndImport ==
    /\ pc = "batches"
    /\ world.batch_num = BatchCount
    /\ pc' = "done"
    /\ world' = [world EXCEPT !.status = "success"]
    /\ UNCHANGED <<doc, arrayBatch, parent_fields, queue, current_batch, child_tables,
                   nextRid, behind, files, imp, result>>
    /\ UNCHANGED <<self, clock, sleeps, cpc>>
    /\ UNCHANGED <<writerVars, exportVars, readerVars>>

NextStitch ==
    \/ ReadBatch
    \/ StreamChild
    \/ StreamChildFails
    \/ RecordAndInitialize
    \/ AssignTable
    \/ UpsertBatch
    \/ EndImport

SpecStitch == InitStitch /\ [][NextStitch]_vars

\* The rows of the files: the table, the place in its file, the cells.
AllRows ==
    UNION {{[table |-> t, index |-> i, row |-> ReadCsv(files[t])[i]] :
               i \in 1..Len(files[t].rows)} : t \in DOMAIN files}

\* The value that tells a row's object from all others: d of a parent, c of a child.
TokOf(row) == IF <<"c">> \in DOMAIN row THEN row[<<"c">>] ELSE row[<<"d">>]

\* 0 for the parent file, 1 for a table of the documents' arrays, and so on.
Level(t) == IF t = CONTAINER THEN 0 ELSE DotCount(t) + 1

\* The rows one level up that carry the rid a row names as its parent.
ParentsOf(r) ==
    {q \in AllRows : Level(q.table) = Level(r.table) - 1 /\ q.row[RID] = r.row[PARENT_RID]}

\* The ancestor chain of a row ends at a parent row.
RECURSIVE Resolves(_)
Resolves(r) ==
    \/ r.table = CONTAINER
    \/ \E q \in ParentsOf(r) : Resolves(q)

\* The place of the root parent row of a row whose chain resolves.
RECURSIVE RootIndex(_)
RootIndex(r) ==
    IF r.table = CONTAINER THEN r.index
    ELSE RootIndex(CHOOSE q \in ParentsOf(r) : Resolves(q))

UniqueRids == \A q1, q2 \in AllRows : q1.row[RID] = q2.row[RID] => q1 = q2

\* Every place of the value v where an object with a field c is an element of
\* an array: the path of the place, the object's c, and the d or c of the
\* object that holds the array.
RECURSIVE Sites(_, _, _)
Sites(v, path, owner) ==
    IF v.t = "m"
    THEN UNION {Sites(v.f[k], path \o <<k>>, owner) : k \in DOMAIN v.f}
    ELSE IF v.t = "a"
    THEN UNION {IF v.e[i].t = "m" /\ <<"c">> \in DOMAIN v.e[i].f
                THEN {[path |-> path \o <<i>>, tok |-> v.e[i].f[<<"c">>], under |-> owner]}
                     \cup Sites(v.e[i], path \o <<i>>, v.e[i].f[<<"c">>])
                ELSE Sites(v.e[i], path \o <<i>>, owner) : i \in DOMAIN v.e}
    ELSE {}

\* The places in the documents handed to the upsert, over all batches.
AllSites ==
    UNION {Sites(M(world.documents[i]), <<i>>, world.documents[i][<<"d">>]) :
              i \in DOMAIN world.documents}

SitesOf(r) == {s \in AllSites : s.tok = TokOf(r.row)}

\* The full name of a nested table is also the marker of an array a parent
\* row holds under a path of objects.
PathCollision ==
    \E t \in DOMAIN files \ {CONTAINER} :
        Level(t) > 1 /\ Marker(t) \in Range(files[CONTAINER].header)

\* What the stitcher does with the rows of child table r.table.
Attachment(r) ==
    /\ Cardinality(SitesOf(r)) <= 1
    /\ ~Resolves(r) => SitesOf(r) = {}
    /\ \A s \in SitesOf(r) :
          /\ s.path[1] = RootIndex(r)
          /\ \E q \in ParentsOf(r) : s.under = TokOf(q.row)
    /\ (Resolves(r) /\ world.fault = NoChunkFault) => Cardinality(SitesOf(r)) = 1

\* C31: over the batches of one import whose rows have rids of their own, a
\* child row is attached at most once, and then in the document of its root
\* parent row under the object whose rid is its _parent_rid; a row whose
\* chain does not resolve is attached nowhere; and when every file is read
\* to its end a row whose chain resolves is attached exactly once.
OrphansAndBatchIsolation ==
    (pc = "done" /\ UniqueRids) =>
        \A r \in {q \in AllRows : q.table # CONTAINER} : Attachment(r)

\* The same, for the exports in which no nested table shares its name with
\* an array under a path of objects.
IsolationWithoutCollision ==
    (pc = "done" /\ UniqueRids /\ ~PathCollision) =>
        \A r \in {q \in AllRows : q.table # CONTAINER} : Attachment(r)

\* An import in several batches with an orphan row and its orphaned children
\* in the files, the other rows attached.
IsolationWithoutCollisionWitness ==
    /\ pc = "done"
    /\ ~PathCollision
    /\ UniqueRids
    /\ world.how = "orphan"
    /\ world.fault = NoChunkFault
    /\ world.batch_num >= 2
    /\ \E r \in AllRows : r.table = TableAB /\ ~Resolves(r) /\ ParentsOf(r) # {}
    /\ \E r \in AllRows : r.table = TableAB /\ Cardinality(SitesOf(r)) = 1

\* C32: a run whose files hold two rows with the same rid is rejected with a
\* DataError.
DuplicateRidsRejected ==
    (pc = "done" /\ ~UniqueRids) => world.status = "DataError"

\* Every run ends in success with one document for each parent row, the runs
\* over duplicate rids too.
DuplicateRidsUpserted ==
    pc = "done" => /\ world.status = "success"
                   /\ Len(world.documents) = ParentRowCount

\* The chunk of a row in its file, and the rows an import may leave out when
\* the read of world.fault fails: those of the chunk and their descendants.
CsvChunkOf(r) == ((r.index - 1) \div ChunkRows) + 1
RECURSIVE Skipped(_)
Skipped(r) ==
    \/ r.table = world.fault.table /\ CsvChunkOf(r) = world.fault.chunk
    \/ \E q \in ParentsOf(r) : Skipped(q)

\* C36: when the read of one chunk of a child file of an export fails (no
\* table name shared), the failure is logged, the batch is stitched and upserted, and every row of the other
\* chunks and of the other files is attached.
ChunkRecovery ==
    (pc = "done" /\ world.how = "export" /\ ~PathCollision /\ world.fault # NoChunkFault) =>
        /\ world.log # <<>>
        /\ Len(world.documents) = ParentRowCount
        /\ \A r \in {q \in AllRows : q.table # CONTAINER} :
              ~Skipped(r) => Cardinality(SitesOf(r)) = 1

\* What the import does: the failure is logged and every batch is upserted,
\* without any row of the failing chunk or of the chunks after it.
RestOfFileLost ==
    (pc = "done" /\ world.how = "export" /\ world.fault # NoChunkFault) =>
        /\ world.log # <<>>
        /\ Len(world.documents) = ParentRowCount
        /\ \A r \in AllRows :
              (r.table = world.fault.table /\ CsvChunkOf(r) >= world.fault.chunk)
                  => SitesOf(r) = {}

====
